---------------------------- MODULE Spec2Model ----------------------------
(***************************************************************************)
(* A model of the lunr search engine core: the TokenSet automaton and its  *)
(* Builder, the NumberMap, and Index.query with its Set algebra.           *)
(*                                                                         *)
(* Strings are sequences of one-character strings, compared by UTF-16 code *)
(* unit as JavaScript compares them.  TokenSet nodes live in a heap, a     *)
(* sequence of node records; a node's id is its index in the heap, which   *)
(* is the value the static counter TokenSet._nextId gave it.               *)
(***************************************************************************)
EXTENDS Integers, Sequences, FiniteSets

VARIABLES
  \* TokenSet.fromArray / toArray / intersect
  arr,        \* the word list handed to TokenSet.fromArray
  pos,        \* number of words of arr inserted so far
  heap,       \* all TokenSet nodes allocated so far, by id
  builder,    \* the TokenSet.Builder: root, previousWord, uncheckedNodes, minimizedNodes
  phase,      \* "idle" | "building" | "built" | "listed" | "wildcard" | "fuzzy"
  words,      \* result of root.toArray()
  qstr,       \* the pattern or fuzzy string of the last intersect
  qedits,     \* the edit distance of the last fuzzy intersect
  expanded,   \* result of root.intersect(query).toArray()
  tsThrown    \* the message of the Error builder.insert threw, "" if none

tsVars == <<arr, pos, heap, builder, phase, words, qstr, qedits, expanded, tsThrown>>

VARIABLES
  \* NumberMap.fromInvertedIndex / matchRange / matchComparator
  nmKeys,     \* Object.keys(invertedIndex)
  nmPos,      \* number of keys visited by the loop of fromInvertedIndex
  nmMap,      \* NumberMap.Builder.map, in insertion order
  nmEntries,  \* NumberMap.entries
  nmPhase,    \* "idle" | "adding" | "built" | "range" | "comparator"
  nmQuery,    \* the arguments of the last match call
  nmResult    \* the tokens of the TokenSet the last match call returned

nmVars == <<nmKeys, nmPos, nmMap, nmEntries, nmPhase, nmQuery, nmResult>>

VARIABLES
  \* Builder.add / build, Index.query / toJSON / load
  ixSource,   \* which source of Index.query runs: "lib/builder.ts" | "lunr.js"
  ixDocs,     \* the documents handed to Builder.add, in order
  ixBuilder,  \* the lunr.Builder
  ixNodes,    \* all TokenSet nodes allocated so far, by id
  ixIndex,    \* the lunr.Index returned by build()
  ixLoaded,   \* the lunr.Index returned by Index.load(index.toJSON())
  ixPhase,    \* "idle" | "adding" | "built" | "queried" | "loaded" | "compared"
  ixClauses,  \* the clauses of the last query
  ixOutcome,  \* what index.query returned or threw
  ixReloaded  \* what the loaded index returned or threw for the same clauses

idxVars ==
  <<ixSource, ixDocs, ixBuilder, ixNodes, ixIndex, ixLoaded, ixPhase, ixClauses, ixOutcome, ixReloaded>>

VARIABLES
  \* MatchData objects built by Index.query from the metadata of the postings
  mdHeap,     \* every metadata object (key -> array), by address
  mdPhase,    \* "idle" | "built" | "queried" | "between" | "repeated"
  mdQuery,    \* the clauses of the first query
  mdResult,   \* what the first query returned, metadata by value
  mdLast,     \* what the call after the first query returned or threw
  mdAgain,    \* what the first query returned when it was repeated
  mdInstances,\* the MatchData objects a caller has constructed, in order
  mdCalls     \* the calls the caller has made on MatchData, in order

mdVars == <<mdHeap, mdPhase, mdQuery, mdResult, mdLast, mdAgain, mdInstances, mdCalls>>

\* No query is collecting match data.
MDIdle ==
  /\ mdHeap = <<>>
  /\ mdPhase = "idle"
  /\ mdQuery = <<>>
  /\ mdResult = <<>>
  /\ mdLast = <<>>
  /\ mdAgain = <<>>
  /\ mdInstances = <<>>
  /\ mdCalls = <<>>

VARIABLES
  \* QueryParser.parse, as Index.search runs it
  qpParts,    \* the textual clauses the query string was written from
  qpStr,      \* the query string
  qpParser,   \* the QueryParser: lexemes, lexemeIdx, currentClause, currentRange,
              \* currentComparator and the clauses of its query
  qpState,    \* "idle" | "run" | the parser state to call next | "done" | "failed"
  qpError,    \* the QueryParseError thrown, if any
  qpLexer     \* the QueryLexer while run() is in its loop, with the state
              \* function to call next

qpVars == <<qpParts, qpStr, qpParser, qpState, qpError, qpLexer>>

\* No query string is being parsed.
QPIdle ==
  /\ qpParts = <<>>
  /\ qpStr = <<>>
  /\ qpParser = <<>>
  /\ qpState = "idle"
  /\ qpError = <<>>
  /\ qpLexer = <<>>

VARIABLES
  \* lunr.Set: one call of intersect or union
  stSource,   \* which source of lunr.Set runs: "lib/set.ts" | "lunr.js"
  stThis,     \* the set the method is called on
  stOther,    \* its argument
  stOp,       \* "none" | "intersect" | "union"
  stResult    \* what the call returned

stVars == <<stSource, stThis, stOther, stOp, stResult>>

\* No set operation has been called.
STIdle ==
  /\ stSource = ""
  /\ stThis = <<>>
  /\ stOther = <<>>
  /\ stOp = "idle"
  /\ stResult = <<>>

VARIABLES
  \* Two lunr.Vector objects a and b
  vcA,        \* a.elements, as (index, value) pairs
  vcB,        \* b.elements
  vcCall,     \* the last call: its method, receiver and arguments
  vcThrown,   \* what the last call threw, "" if it returned
  vcDot,      \* the results of a.dot(b) and b.dot(a)
  vcMagnitude,\* a._magnitude, in thousandths
  vcReturned  \* what a.magnitude() returned, and whether a memoized value was reset before

vcVars == <<vcA, vcB, vcCall, vcThrown, vcDot, vcMagnitude, vcReturned>>

\* No vector exists.
VCIdle ==
  /\ vcA = <<>>
  /\ vcB = <<>>
  /\ vcCall = <<>>
  /\ vcThrown = ""
  /\ vcDot = <<>>
  /\ vcMagnitude = 0
  /\ vcReturned = <<>>

VARIABLES
  \* Pipeline.run
  plStack,    \* the pipeline's _stack: the functions, in order
  plInput,    \* the tokens handed to run
  plTokens,   \* the local variable tokens of run
  plStage,    \* the number of functions of the stack run so far
  plPhase     \* "idle" | "running" | "returned"

plVars == <<plStack, plInput, plTokens, plStage, plPhase>>

\* No pipeline is running.
PLIdle ==
  /\ plStack = <<>>
  /\ plInput = <<>>
  /\ plTokens = <<>>
  /\ plStage = 0
  /\ plPhase = "idle"

auxVars == <<mdVars, qpVars, stVars, vcVars, plVars>>

AuxIdle == MDIdle /\ QPIdle /\ STIdle /\ VCIdle /\ PLIdle

vars == <<tsVars, nmVars, idxVars, auxVars>>

\* What the operations of each part leave alone.
tsOthers == <<nmVars, idxVars, auxVars>>

nmOthers == <<tsVars, idxVars, auxVars>>

idxOthers == <<tsVars, nmVars, auxVars>>

-----------------------------------------------------------------------------
(* Bounds *)

MaxWordLen == 2
MaxVocab == 2
MaxEdits == 1
MaxKeys == 2
MaxNumber == 3
MaxDocs == 2

-----------------------------------------------------------------------------
(* Characters and strings *)

\* Characters in ascending UTF-16 code unit order.
CharOrder ==
  <<"*", "0", "1", "2", "3", "4", "5", "6", "7", "8", "9",
    "a", "b", "c", "h", "m", "t", "w", "x", "y">>

CharSet == { CharOrder[i] : i \in 1..Len(CharOrder) }

Code == [ c \in CharSet |-> CHOOSE i \in 1..Len(CharOrder) : CharOrder[i] = c ]

DigitChars == <<"0", "1", "2", "3", "4", "5", "6", "7", "8", "9">>

IsDigit(c) == \E i \in 1..10 : DigitChars[i] = c

DigitValue(c) == (CHOOSE i \in 1..10 : DigitChars[i] = c) - 1

\* Number-to-string conversion of a node id (String(id)).
RECURSIVE IdString(_)
IdString(n) ==
  IF n < 10 THEN << DigitChars[n + 1] >>
  ELSE IdString(n \div 10) \o << DigitChars[(n % 10) + 1] >>

\* a < b for strings, as JavaScript's < on strings.
RECURSIVE StrLess(_, _)
StrLess(a, b) ==
  IF b = <<>> THEN FALSE
  ELSE IF a = <<>> THEN TRUE
  ELSE IF a[1] # b[1] THEN Code[a[1]] < Code[b[1]]
  ELSE StrLess(Tail(a), Tail(b))

\* Array.prototype.sort() on strings (default comparison), as insertion sort.
RECURSIVE SortInsert(_, _)
SortInsert(s, x) ==
  IF s = <<>> THEN << x >>
  ELSE IF StrLess(x, s[1]) THEN << x >> \o s
  ELSE << s[1] >> \o SortInsert(Tail(s), x)

RECURSIVE SortStrings(_)
SortStrings(s) ==
  IF s = <<>> THEN <<>>
  ELSE SortInsert(SortStrings(SubSeq(s, 1, Len(s) - 1)), s[Len(s)])

Range(s) == { s[i] : i \in 1..Len(s) }

\* All strings over alphabet A of length at most n.
RECURSIVE StringsUpTo(_, _)
StringsUpTo(A, n) ==
  IF n = 0 THEN { <<>> }
  ELSE LET shorter == StringsUpTo(A, n - 1)
       IN  shorter \cup { Append(s, c) : s \in shorter, c \in A }

-----------------------------------------------------------------------------
(* TokenSet nodes *)

\* new TokenSet: final = false, edges = {}, _str unset.  edges is kept in
\* Object.keys order: integer-like labels ascending, then insertion order.
NewNode == [ final |-> FALSE, edges |-> <<>>, str |-> <<>> ]

Alloc(h) == Append(h, NewNode)

HasEdge(node, label) == \E i \in 1..Len(node.edges) : node.edges[i].label = label

EdgeTo(node, label) ==
  node.edges[CHOOSE i \in 1..Len(node.edges) : node.edges[i].label = label].to

\* node.edges[label] = to
SetEdge(edges, label, to) ==
  IF \E i \in 1..Len(edges) : edges[i].label = label
  THEN [ i \in 1..Len(edges) |->
           IF edges[i].label = label THEN [ label |-> label, to |-> to ] ELSE edges[i] ]
  ELSE IF IsDigit(label)
  THEN LET before == { i \in 1..Len(edges) :
                         IsDigit(edges[i].label) /\ DigitValue(edges[i].label) < DigitValue(label) }
           k == Cardinality(before)
       IN  SubSeq(edges, 1, k) \o << [ label |-> label, to |-> to ] >>
             \o SubSeq(edges, k + 1, Len(edges))
  ELSE Append(edges, [ label |-> label, to |-> to ])

WithEdge(h, id, label, to) ==
  [ h EXCEPT ![id].edges = SetEdge(h[id].edges, label, to) ]

Labels(node) == [ i \in 1..Len(node.edges) |-> << node.edges[i].label >> ]

\* TokenSet.toString: the cached key, or the finality flag followed by each
\* label (sorted) and the decimal id of the node it leads to.
RECURSIVE KeyOfLabels(_, _)
KeyOfLabels(node, labels) ==
  IF labels = <<>> THEN <<>>
  ELSE labels[1] \o IdString(EdgeTo(node, labels[1][1])) \o KeyOfLabels(node, Tail(labels))

ToString(h, id) ==
  IF h[id].str # <<>> THEN h[id].str
  ELSE << IF h[id].final THEN "1" ELSE "0" >>
         \o KeyOfLabels(h[id], SortStrings(Labels(h[id])))

-----------------------------------------------------------------------------
(* TokenSet.Builder *)

\* new TokenSet.Builder, allocating its root in heap h.
NewBuilder(h) ==
  [ heap |-> Alloc(h),
    b    |-> [ root |-> Len(h) + 1, previousWord |-> <<>>,
               uncheckedNodes |-> <<>>, minimizedNodes |-> <<>> ] ]

\* minimizedNodes is a list of (key, node) pairs with distinct keys.
InMinimized(m, key) == \E i \in 1..Len(m) : m[i].key = key

MinimizedAt(m, key) == m[CHOOSE i \in 1..Len(m) : m[i].key = key].node

\* One iteration of the loop of Builder.minimize that keeps every child.
MinimizeStepKeeping(st) ==
  LET u        == st.b.uncheckedNodes
      node     == u[Len(u)]
      childKey == ToString(st.heap, node.child)
  IN  [ heap |-> [ st.heap EXCEPT ![node.child].str = childKey ],
        b    |-> [ st.b EXCEPT !.uncheckedNodes = SubSeq(u, 1, Len(u) - 1) ] ]

\* One iteration of the loop of Builder.minimize, on the top of uncheckedNodes.
MinimizeStep(st) ==
  LET u        == st.b.uncheckedNodes
      node     == u[Len(u)]
      childKey == ToString(st.heap, node.child)
      popped   == SubSeq(u, 1, Len(u) - 1)
  IN  IF InMinimized(st.b.minimizedNodes, childKey)
      THEN [ heap |-> WithEdge(st.heap, node.parent, node.char,
                               MinimizedAt(st.b.minimizedNodes, childKey)),
             b    |-> [ st.b EXCEPT !.uncheckedNodes = popped ] ]
      ELSE [ heap |-> [ st.heap EXCEPT ![node.child].str = childKey ],
             b    |-> [ st.b EXCEPT !.uncheckedNodes = popped,
                                    !.minimizedNodes =
                                       Append(@, [ key |-> childKey, node |-> node.child ]) ] ]

\* Builder.minimize(downTo): for (i = length - 1; i >= downTo; i--)
RECURSIVE Minimize(_, _)
Minimize(st, downTo) ==
  IF Len(st.b.uncheckedNodes) <= downTo THEN st
  ELSE Minimize(MinimizeStep(st), downTo)

RECURSIVE CommonPrefix(_, _)
CommonPrefix(word, prev) ==
  IF word = <<>> \/ prev = <<>> \/ word[1] # prev[1] THEN 0
  ELSE 1 + CommonPrefix(Tail(word), Tail(prev))

\* One iteration of the second loop of Builder.insert: a fresh node for
\* word[i], linked from the current node and pushed on uncheckedNodes.
ExtendStep(c, word) ==
  LET nextNode == Len(c.heap) + 1
  IN  [ heap |-> WithEdge(Alloc(c.heap), c.node, word[c.i], nextNode),
        b    |-> [ c.b EXCEPT !.uncheckedNodes =
                     Append(@, [ parent |-> c.node, char |-> word[c.i], child |-> nextNode ]) ],
        node |-> nextNode,
        i    |-> c.i + 1 ]

\* for (i = commonPrefix; i < word.length; i++) { ... }
RECURSIVE ExtendLoop(_, _)
ExtendLoop(c, word) ==
  IF c.i > Len(word) THEN c
  ELSE ExtendLoop(ExtendStep(c, word), word)

\* the second loop of Builder.insert, then node.final = true
ExtendChain(st, node, word, commonPrefix) ==
  LET c == ExtendLoop([ heap |-> st.heap, b |-> st.b, node |-> node, i |-> commonPrefix + 1 ],
                      word)
  IN  [ heap |-> [ c.heap EXCEPT ![c.node].final = TRUE ], b |-> c.b ]

OutOfOrder(b, word) == StrLess(word, b.previousWord)

\* Builder.insert(word), for a word that is not out of order.
Insert(st, word) ==
  LET commonPrefix == CommonPrefix(word, st.b.previousWord)
      st1  == Minimize(st, commonPrefix)
      u    == st1.b.uncheckedNodes
      node == IF Len(u) = 0 THEN st1.b.root ELSE u[Len(u)].child
      st2  == ExtendChain(st1, node, word, commonPrefix)
  IN  [ st2 EXCEPT !.b.previousWord = word ]

\* Builder.insert(word) that minimizes before it looks at the order
InsertCallMinimizingFirst(st, word) ==
  IF OutOfOrder(st.b, word)
  THEN [ st |-> Minimize(st, CommonPrefix(word, st.b.previousWord)),
         thrown |-> "Out of order word insertion" ]
  ELSE [ st |-> Insert(st, word), thrown |-> "" ]

\* Builder.insert(word), the whole call: the state it leaves and the message
\* of the Error it throws, "" if it returns.
InsertCall(st, word) ==
  IF OutOfOrder(st.b, word)
  THEN [ st |-> st, thrown |-> "Out of order word insertion" ]
  ELSE [ st |-> Insert(st, word), thrown |-> "" ]

\* Builder.finish()
Finish(st) == Minimize(st, 0)

\* for (i = 0; i < arr.length; i++) builder.insert(arr[i])
RECURSIVE InsertAll(_, _, _)
InsertAll(st, list, i) ==
  IF i > Len(list) THEN st
  ELSE InsertAll(Insert(st, list[i]), list, i + 1)

\* TokenSet.fromArray(arr) for a sorted arr, allocating in heap h.
FromArray(h, list) ==
  LET st == Finish(InsertAll(NewBuilder(h), list, 1))
  IN  [ heap |-> st.heap, root |-> st.b.root ]

-----------------------------------------------------------------------------
(* TokenSet.toArray, intersect, fromString, fromFuzzyString *)

\* Frames pushed for the edges of a node, in Object.keys order.
PushEdges(h, frame) ==
  [ i \in 1..Len(h[frame.node].edges) |->
      [ prefix |-> Append(frame.prefix, h[frame.node].edges[i].label),
        node   |-> h[frame.node].edges[i].to ] ]

\* One iteration of the while loop of TokenSet.toArray.
ToArrayStep(h, c) ==
  LET frame == c.stack[Len(c.stack)]
      rest  == SubSeq(c.stack, 1, Len(c.stack) - 1)
  IN  [ stack |-> rest \o PushEdges(h, frame),
        out   |-> IF h[frame.node].final THEN Append(c.out, frame.prefix) ELSE c.out ]

\* while (stack.length) { ... }
RECURSIVE ToArrayLoop(_, _)
ToArrayLoop(h, c) ==
  IF c.stack = <<>> THEN c.out
  ELSE ToArrayLoop(h, ToArrayStep(h, c))

ToArray(h, root) ==
  ToArrayLoop(h, [ stack |-> << [ prefix |-> <<>>, node |-> root ] >>, out |-> <<>> ])

\* The body of the two nested loops of TokenSet.intersect for one pair of
\* edges: acc is the heap and the stack.
IntersectPair(acc, frame, qEdge, nEdge) ==
  IF ~(nEdge.label = qEdge.label \/ qEdge.label = "*") THEN acc
  ELSE LET h     == acc.heap
           final == h[nEdge.to].final /\ h[qEdge.to].final
           out   == h[frame.output]
       IN  IF HasEdge(out, nEdge.label)
           THEN LET next == EdgeTo(out, nEdge.label)
                IN  [ heap  |-> [ h EXCEPT ![next].final = @ \/ final ],
                      stack |-> Append(acc.stack,
                                  [ qNode |-> qEdge.to, output |-> next, node |-> nEdge.to ]) ]
           ELSE LET next == Len(h) + 1
                    h1   == [ Alloc(h) EXCEPT ![next].final = final ]
                IN  [ heap  |-> WithEdge(h1, frame.output, nEdge.label, next),
                      stack |-> Append(acc.stack,
                                  [ qNode |-> qEdge.to, output |-> next, node |-> nEdge.to ]) ]

\* for q in qEdges: for n in nEdges
RECURSIVE IntersectEdges(_, _, _, _, _, _)
IntersectEdges(acc, frame, qEdges, nEdges, q, n) ==
  IF q > Len(qEdges) THEN acc
  ELSE IF n > Len(nEdges) THEN IntersectEdges(acc, frame, qEdges, nEdges, q + 1, 1)
  ELSE IntersectEdges(IntersectPair(acc, frame, qEdges[q], nEdges[n]),
                      frame, qEdges, nEdges, q, n + 1)

\* One iteration of the while loop of TokenSet.intersect.
IntersectStep(acc) ==
  LET frame  == acc.stack[Len(acc.stack)]
      popped == [ acc EXCEPT !.stack = SubSeq(@, 1, Len(@) - 1) ]
  IN  IntersectEdges(popped, frame, acc.heap[frame.qNode].edges,
                     acc.heap[frame.node].edges, 1, 1)

\* while (stack.length) { ... }
RECURSIVE IntersectLoop(_)
IntersectLoop(acc) ==
  IF acc.stack = <<>> THEN acc.heap
  ELSE IntersectLoop(IntersectStep(acc))

\* a.intersect(b): the output automaton is allocated in the heap.
Intersect(h, a, b) ==
  LET output == Len(h) + 1
  IN  [ heap |-> IntersectLoop([ heap  |-> Alloc(h),
                                 stack |-> << [ qNode |-> b, output |-> output, node |-> a ] >> ]),
        root |-> output ]

\* TokenSet.fromString(str)
RECURSIVE FromStringLoop(_, _, _, _)
FromStringLoop(h, node, str, i) ==
  IF i > Len(str) THEN h
  ELSE LET final == (i = Len(str))
       IN  IF str[i] = "*"
           THEN FromStringLoop([ WithEdge(h, node, "*", node) EXCEPT ![node].final = final ],
                               node, str, i + 1)
           ELSE LET next == Len(h) + 1
                    h1   == [ Alloc(h) EXCEPT ![next].final = final ]
                IN  FromStringLoop(WithEdge(h1, node, str[i], next), next, str, i + 1)

FromString(h, str) ==
  [ heap |-> FromStringLoop(Alloc(h), Len(h) + 1, str, 1), root |-> Len(h) + 1 ]

\* FuzzyEdge with the length test of "if (...) node.final = true" dropped:
\* the target is marked final whatever remains of the string.
FuzzyEdgeAlwaysFinal(acc, node, label, final, push, edits, str) ==
  LET h      == acc.heap
      exists == HasEdge(h[node], label)
      target == IF exists THEN EdgeTo(h[node], label) ELSE Len(h) + 1
      h1     == IF exists THEN h ELSE WithEdge(Alloc(h), node, label, target)
  IN  [ heap  |-> [ h1 EXCEPT ![target].final = TRUE ],
        stack |-> IF push
                  THEN Append(acc.stack, [ node |-> target, editsRemaining |-> edits, str |-> str ])
                  ELSE acc.stack ]

\* "if (label in node.edges) use it, else create it", then either mark the
\* target final or push a frame for it: the shape shared by the edit blocks
\* of TokenSet.fromFuzzyString.  acc is the heap and the stack.
FuzzyEdge(acc, node, label, final, push, edits, str) ==
  LET h      == acc.heap
      exists == HasEdge(h[node], label)
      target == IF exists THEN EdgeTo(h[node], label) ELSE Len(h) + 1
      h1     == IF exists THEN h ELSE WithEdge(Alloc(h), node, label, target)
      h2     == IF final THEN [ h1 EXCEPT ![target].final = TRUE ] ELSE h1
  IN  [ heap  |-> h2,
        stack |-> IF push
                  THEN Append(acc.stack, [ node |-> target, editsRemaining |-> edits, str |-> str ])
                  ELSE acc.stack ]

\* One iteration of the while loop of TokenSet.fromFuzzyString.
FuzzyFrame(acc0, frame) ==
  LET str  == frame.str
      n    == Len(str)
      e    == frame.editsRemaining
      node == frame.node
      \* no edit
      a1 == IF n > 0
            THEN FuzzyEdge(acc0, node, str[1], n = 1, TRUE, e, Tail(str))
            ELSE acc0
      \* deletion
      a2 == IF e > 0 /\ n > 1
            THEN FuzzyEdge(a1, node, str[2], n <= 2, ~(n <= 2), e - 1, SubSeq(str, 3, n))
            ELSE a1
      \* deletion of the last character
      a3 == IF e > 0 /\ n = 1
            THEN [ a2 EXCEPT !.heap[node].final = TRUE ]
            ELSE a2
      \* substitution
      a4 == IF e > 0 /\ n >= 1
            THEN FuzzyEdge(a3, node, "*", n = 1, ~(n = 1), e - 1, Tail(str))
            ELSE a3
      \* insertion
      a5 == IF e > 0
            THEN FuzzyEdge(a4, node, "*", n = 0, ~(n = 0), e - 1, str)
            ELSE a4
      \* transposition
      a6 == IF e > 0 /\ n > 1
            THEN FuzzyEdge(a5, node, str[2], n = 1, ~(n = 1), e - 1,
                           << str[1] >> \o SubSeq(str, 3, n))
            ELSE a5
  IN  a6

RECURSIVE FuzzyLoop(_)
FuzzyLoop(acc) ==
  IF acc.stack = <<>> THEN acc.heap
  ELSE FuzzyLoop(FuzzyFrame([ acc EXCEPT !.stack = SubSeq(@, 1, Len(@) - 1) ],
                            acc.stack[Len(acc.stack)]))

\* TokenSet.fromFuzzyString(str, editDistance)
FromFuzzyString(h, str, editDistance) ==
  [ heap |-> FuzzyLoop([ heap  |-> Alloc(h),
                         stack |-> << [ node |-> Len(h) + 1,
                                        editsRemaining |-> editDistance,
                                        str |-> str ] >> ]),
    root |-> Len(h) + 1 ]

\* this.intersect(query).toArray() for a query automaton built in the heap.
Expand(h, root, query) ==
  LET out == Intersect(query.heap, root, query.root)
  IN  ToArray(out.heap, out.root)

-----------------------------------------------------------------------------
(* TokenSet.fromArray(arr), one Builder.insert per step, then finish(),    *)
(* followed by one toArray() or one intersect(...).toArray().              *)

Alphabet == { "a", "b" }

Words == StringsUpTo(Alphabet, MaxWordLen)

\* Lists of at most n words of W.
RECURSIVE ListsUpTo(_, _)
ListsUpTo(W, n) ==
  IF n = 0 THEN { <<>> }
  ELSE LET shorter == ListsUpTo(W, n - 1)
       IN  shorter \cup { Append(l, w) : l \in shorter, w \in W }

IsAscending(l) == \A i \in 1..(Len(l) - 1) : StrLess(l[i], l[i + 1])

\* Strictly ascending lists of at most n words of W.
SortedLists(W, n) == { l \in ListsUpTo(W, n) : IsAscending(l) }

\* A sorted list of ten distinct numeric terms; built from a fresh
\* TokenSet._nextId its automaton allocates 26 nodes.
DigitList ==
  << << "0", "1" >>, << "1", "1", "2", "1" >>, << "1", "3", "1", "1" >>,
     << "2", "0", "0", "1" >>, << "2", "1" >>, << "2", "2", "0" >>, << "2", "3" >>,
     << "3", "0", "1" >>, << "3", "3", "0", "2" >>, << "3", "3", "2", "1" >> >>

Inputs == SortedLists(Words, MaxVocab) \cup { DigitList }

Patterns == StringsUpTo(Alphabet \cup { "*" }, MaxWordLen) \ { <<>> }

FuzzyStrings == StringsUpTo(Alphabet, MaxWordLen) \cup { << "a", "*" >> }

\* No NumberMap has been built.
NMIdle ==
  /\ nmKeys = <<>>
  /\ nmPos = 0
  /\ nmMap = <<>>
  /\ nmEntries = <<>>
  /\ nmPhase = "idle"
  /\ nmQuery = <<>>
  /\ nmResult = <<>>

\* No Index is being built.
IdxIdle ==
  /\ ixSource = ""
  /\ ixDocs = <<>>
  /\ ixBuilder = <<>>
  /\ ixNodes = <<>>
  /\ ixIndex = <<>>
  /\ ixLoaded = <<>>
  /\ ixPhase = "idle"
  /\ ixClauses = <<>>
  /\ ixOutcome = <<>>
  /\ ixReloaded = <<>>

TSInit ==
  /\ NMIdle
  /\ IdxIdle
  /\ AuxIdle
  /\ arr \in Inputs
  /\ pos = 0
  /\ heap = NewBuilder(<<>>).heap
  /\ builder = NewBuilder(<<>>).b
  /\ phase = "building"
  /\ words = <<>>
  /\ qstr = <<>>
  /\ qedits = 0
  /\ expanded = <<>>
  /\ tsThrown = ""

\* builder.insert(arr[i]) in the loop of TokenSet.fromArray
FromArrayInsert ==
  /\ phase = "building"
  /\ pos < Len(arr)
  /\ ~OutOfOrder(builder, arr[pos + 1])
  /\ LET st == Insert([ heap |-> heap, b |-> builder ], arr[pos + 1])
     IN  /\ heap' = st.heap
         /\ builder' = st.b
  /\ pos' = pos + 1
  /\ UNCHANGED <<arr, phase, words, qstr, qedits, expanded, tsThrown, tsOthers>>

\* builder.insert(word) for a word smaller than the word inserted before
InsertOutOfOrder ==
  /\ phase = "building"
  /\ \E word \in Words :
       /\ OutOfOrder(builder, word)
       /\ LET call == InsertCall([ heap |-> heap, b |-> builder ], word)
          IN  /\ heap' = call.st.heap
              /\ builder' = call.st.b
              /\ tsThrown' = call.thrown
              /\ phase' = IF call.thrown = "" THEN phase ELSE "failed"
       /\ qstr' = word
  /\ UNCHANGED <<arr, pos, words, qedits, expanded, tsOthers>>

\* builder.finish(); return builder.root
FromArrayFinish ==
  /\ phase = "building"
  /\ pos = Len(arr)
  /\ LET st == Finish([ heap |-> heap, b |-> builder ])
     IN  /\ heap' = st.heap
         /\ builder' = st.b
  /\ phase' = "built"
  /\ UNCHANGED <<arr, pos, words, qstr, qedits, expanded, tsThrown, tsOthers>>

\* root.toArray()
ToArrayCall ==
  /\ phase = "built"
  /\ words' = ToArray(heap, builder.root)
  /\ phase' = "listed"
  /\ UNCHANGED <<arr, pos, heap, builder, qstr, qedits, expanded, tsThrown, tsOthers>>

\* root.intersect(TokenSet.fromString(p)).toArray()
WildcardCall ==
  /\ phase = "built"
  /\ \E p \in Patterns :
       /\ qstr' = p
       /\ expanded' = Expand(heap, builder.root, FromString(heap, p))
  /\ phase' = "wildcard"
  /\ UNCHANGED <<arr, pos, heap, builder, words, qedits, tsThrown, tsOthers>>

\* root.intersect(TokenSet.fromFuzzyString(s, k)).toArray()
FuzzyCall ==
  /\ phase = "built"
  /\ \E s \in FuzzyStrings, k \in 0..MaxEdits :
       /\ qstr' = s
       /\ qedits' = k
       /\ expanded' = Expand(heap, builder.root, FromFuzzyString(heap, s, k))
  /\ phase' = "fuzzy"
  /\ UNCHANGED <<arr, pos, heap, builder, words, tsThrown, tsOthers>>

TSNext ==
  \/ FromArrayInsert
  \/ InsertOutOfOrder
  \/ FromArrayFinish
  \/ ToArrayCall
  \/ WildcardCall
  \/ FuzzyCall

SpecTokenSet == TSInit /\ [][TSNext]_vars

-----------------------------------------------------------------------------
(* Properties of the TokenSet *)

Count(seq, x) == Cardinality({ i \in 1..Len(seq) : seq[i] = x })

\* s matches pattern p, where "*" matches any sequence of characters.
RECURSIVE GlobMatch(_, _)
GlobMatch(p, s) ==
  IF p = <<>> THEN s = <<>>
  ELSE IF p[1] = "*"
  THEN GlobMatch(Tail(p), s) \/ (s # <<>> /\ GlobMatch(p, Tail(s)))
  ELSE s # <<>> /\ s[1] = p[1] /\ GlobMatch(Tail(p), Tail(s))

\* The strings one edit away from s: a deletion, an insertion or a
\* substitution of one character of A, or a transposition of two adjacent
\* characters.
EditsOf(s, A) ==
  LET n == Len(s)
  IN  { SubSeq(s, 1, i - 1) \o SubSeq(s, i + 1, n) : i \in 1..n }
        \cup { SubSeq(s, 1, i) \o << c >> \o SubSeq(s, i + 1, n) : i \in 0..n, c \in A }
        \cup { SubSeq(s, 1, i - 1) \o << c >> \o SubSeq(s, i + 1, n) : i \in 1..n, c \in A }
        \cup { SubSeq(s, 1, i - 1) \o << s[i + 1], s[i] >> \o SubSeq(s, i + 2, n) :
                 i \in 1..(n - 1) }

\* The Damerau-Levenshtein distance between s and t is at most k.
RECURSIVE WithinEdits(_, _, _, _)
WithinEdits(s, t, k, A) ==
  \/ s = t
  \/ /\ k > 0
     /\ Len(s) - Len(t) <= k
     /\ Len(t) - Len(s) <= k
     /\ \E u \in EditsOf(s, A) : WithinEdits(u, t, k - 1, A)

\* C4: for a pattern p containing "*" and any word s of the vocabulary, s is
\* in fromArray(sort(V)).intersect(fromString(p)).toArray() if and only if
\* s matches p as a glob.
C4_WildcardConsistency ==
  (phase = "wildcard" /\ "*" \in Range(qstr))
    => \A s \in Range(arr) : (s \in Range(expanded)) <=> GlobMatch(qstr, s)

\* C5 as stated: every t in fromArray(sort(V)).intersect(fromFuzzyString(s, k))
\* .toArray() is within Damerau-Levenshtein distance k of s, for any s.
C5_FuzzyConsistencyAnyString ==
  phase = "fuzzy"
    => \A t \in Range(expanded) :
         WithinEdits(qstr, t, qedits, Range(qstr) \cup Range(t))

\* C5, for s without the character "*": every t in
\* fromArray(sort(V)).intersect(fromFuzzyString(s, k)).toArray() is within
\* Damerau-Levenshtein distance k of s.
C5_FuzzyConsistency ==
  (phase = "fuzzy" /\ "*" \notin Range(qstr))
    => \A t \in Range(expanded) :
         WithinEdits(qstr, t, qedits, Range(qstr) \cup Range(t))

\* A fuzzy expansion with one edit allowed finds a word other than s.
C5_Witness ==
  /\ phase = "fuzzy"
  /\ "*" \notin Range(qstr)
  /\ qedits = 1
  /\ \E t \in Range(expanded) : t # qstr

\* C6: for a sorted list L of distinct strings, fromArray(L).toArray() is a
\* permutation of L.
C6_RoundTrip ==
  phase = "listed"
    => /\ \A w \in Range(arr) : Count(words, w) = 1
       /\ Range(words) \subseteq Range(arr)

\* C15: a builder.insert(word) with word smaller than the word inserted before
\* throws "Out of order word insertion" and leaves the automaton and the
\* builder (root, previousWord, uncheckedNodes, minimizedNodes) as they were.
C15_OutOfOrderRejected ==
  [][ (phase = "building" /\ qstr' # qstr) =>
        /\ StrLess(qstr', builder.previousWord)
        /\ tsThrown' = "Out of order word insertion"
        /\ phase' = "failed"
        /\ heap' = heap
        /\ builder' = builder ]_vars

\* An insert was rejected while nodes were waiting to be minimized.
C15_Witness ==
  /\ phase = "failed"
  /\ tsThrown = "Out of order word insertion"
  /\ StrLess(qstr, builder.previousWord)
  /\ builder.uncheckedNodes # <<>>

\* The nodes reachable from the nodes of frontier.
RECURSIVE ReachableFrom(_, _, _)
ReachableFrom(h, frontier, seen) ==
  IF frontier = {} THEN seen
  ELSE LET next == UNION { { h[n].edges[i].to : i \in 1..Len(h[n].edges) } :
                             n \in frontier } \ seen
       IN  ReachableFrom(h, next, seen \cup next)

\* The canonical key of a node: its finality flag and its (label, child id)
\* pairs; the pairs have distinct labels, so the set is the sorted list.
CanonicalKey(h, n) ==
  << h[n].final, { << h[n].edges[i].label, h[n].edges[i].to >> : i \in 1..Len(h[n].edges) } >>

\* C16: after finish(), no two distinct nodes reachable from the root have
\* the same canonical key.
C16_NoTwoNodesWithOneKey ==
  phase \in { "built", "listed", "wildcard", "fuzzy" } =>
    LET nodes == ReachableFrom(heap, { builder.root }, { builder.root })
    IN  \A n1, n2 \in nodes : CanonicalKey(heap, n1) = CanonicalKey(heap, n2) => n1 = n2

\* finish() has merged nodes of the automaton of the ten numeric terms:
\* fewer nodes are reachable than were allocated.
C16_Witness ==
  /\ phase = "built"
  /\ arr = DigitList
  /\ Cardinality(ReachableFrom(heap, { builder.root }, { builder.root })) < Len(heap)

-----------------------------------------------------------------------------
(* NumberMap *)

\* The not-a-number result of parseFloat.
NaN == -1

\* parseFloat(term) for terms of digits and letters: the value of the
\* longest prefix of decimal digits, NaN when the term starts with none.
RECURSIVE ParseDigits(_, _, _)
ParseDigits(term, i, acc) ==
  IF i > Len(term) \/ ~IsDigit(term[i]) THEN acc
  ELSE ParseDigits(term, i + 1, acc * 10 + DigitValue(term[i]))

ParseFloat(term) ==
  IF term = <<>> \/ ~IsDigit(term[1]) THEN NaN
  ELSE ParseDigits(term, 1, 0)

IsFinite(number) == number # NaN

\* NumberMap.Builder.add(value, token)
BuilderAdd(map, value, token) ==
  IF \E i \in 1..Len(map) : map[i].value = value
  THEN [ i \in 1..Len(map) |->
           IF map[i].value = value
           THEN [ map[i] EXCEPT !.tokens = Append(@, token) ]
           ELSE map[i] ]
  ELSE Append(map, [ value |-> value, tokens |-> << token >> ])

\* Array.prototype.sort(compareEntries): ascending by value.
RECURSIVE InsertEntry(_, _)
InsertEntry(s, x) ==
  IF s = <<>> THEN << x >>
  ELSE IF x.value < s[1].value THEN << x >> \o s
  ELSE << s[1] >> \o InsertEntry(Tail(s), x)

RECURSIVE SortEntries(_)
SortEntries(s) ==
  IF s = <<>> THEN <<>>
  ELSE InsertEntry(SortEntries(SubSeq(s, 1, Len(s) - 1)), s[Len(s)])

\* NumberMap.Builder.build()
BuilderBuild(map) == SortEntries(map)

\* The bitwise complement ~x of a 32-bit integer.
BitNot(x) == -x - 1

\* utils.binarySearchKey with compareNumbers, over the selected keys of the
\* array (one per step); positions are 0-based as in the source.
RECURSIVE BinarySearchKeyLoop(_, _, _, _, _)
BinarySearchKeyLoop(keys, key, l, h, bias) ==
  IF l > h
  THEN IF bias = "LEAST_UPPER_BOUND" THEN l
       ELSE IF bias = "GREATEST_LOWER_BOUND" THEN l - 1
       ELSE BitNot(l)
  ELSE LET m    == l + ((h - l) \div 2)
           mKey == keys[m + 1]
           r    == mKey - key
       IN  IF r < 0 THEN BinarySearchKeyLoop(keys, key, m + 1, h, bias)
           ELSE IF r > 0 THEN BinarySearchKeyLoop(keys, key, l, m - 1, bias)
           ELSE m

BinarySearchKey(keys, key, bias) == BinarySearchKeyLoop(keys, key, 0, Len(keys) - 1, bias)

\* NumberMap.binarySearch(value)
BinarySearch(entries, value) ==
  BinarySearchKey([ i \in 1..Len(entries) |-> entries[i].value ], value, "TWOS_COMPLEMENT")

\* while (startIndex < endIndex) result = result.concat(entries[startIndex++].tokens)
RECURSIVE ConcatTokens(_, _, _)
ConcatTokens(entries, startIndex, endIndex) ==
  IF startIndex < endIndex
  THEN entries[startIndex + 1].tokens \o ConcatTokens(entries, startIndex + 1, endIndex)
  ELSE <<>>

\* NumberMap.collectTokens(startIndex, endIndex), read back with toArray().
CollectTokens(entries, startIndex, endIndex) ==
  LET result ==
        IF startIndex < Len(entries) /\ endIndex > 0
        THEN ConcatTokens(entries,
                          IF startIndex < 0 THEN 0 ELSE startIndex,
                          IF endIndex > Len(entries) THEN Len(entries) ELSE endIndex)
        ELSE <<>>
      set == FromArray(<<>>, SortStrings(result))
  IN  ToArray(set.heap, set.root)

\* A range endpoint is "*" or a number: Star, or the one-element sequence
\* holding the number.
Star == <<>>

Number(n) == << n >>

\* NumberMap.matchRange(start, end)
MatchRange(entries, start, end) ==
  LET s0         == IF start = Star THEN 0 ELSE BinarySearch(entries, start[1])
      startIndex == IF s0 < 0 THEN BitNot(s0) + 1 ELSE s0
      e0         == IF end = Star THEN Len(entries) ELSE BinarySearch(entries, end[1])
      endIndex   == IF e0 < 0 THEN BitNot(e0) ELSE e0
  IN  CollectTokens(entries, startIndex, endIndex)

Comparators == { ">", ">=", "<", "<=" }

\* NumberMap.matchComparator(comparator, comparand)
MatchComparator(entries, comparator, comparand) ==
  LET index == BinarySearch(entries, comparand)
      startIndex ==
        IF comparator = ">" THEN (IF index < 0 THEN BitNot(index) ELSE index) + 1
        ELSE IF comparator = ">=" THEN (IF index < 0 THEN BitNot(index) + 1 ELSE index)
        ELSE 0
      endIndex ==
        IF comparator = "<" THEN (IF index < 0 THEN BitNot(index) + 1 ELSE index)
        ELSE IF comparator = "<=" THEN (IF index < 0 THEN BitNot(index) ELSE index) + 1
        ELSE IF comparator \in { ">", ">=" } THEN Len(entries)
        ELSE 0
  IN  CollectTokens(entries, startIndex, endIndex)

-----------------------------------------------------------------------------
(* NumberMap.fromInvertedIndex(invertedIndex), one key per step, then      *)
(* build(), followed by one matchRange or matchComparator.                 *)

\* The terms of the inverted index.
NumberTerms ==
  { << "1" >>, << "3" >>, << "0", "3" >>, << "1", "3" >>, << "3", "a" >>, << "a" >> }

\* A key that is a canonical array index: digits without a leading zero.
IsIndexKey(k) ==
  /\ k # <<>>
  /\ \A i \in 1..Len(k) : IsDigit(k[i])
  /\ (Len(k) = 1 \/ k[1] # "0")

RECURSIVE InsertIndexKey(_, _)
InsertIndexKey(s, k) ==
  IF s = <<>> THEN << k >>
  ELSE IF ParseFloat(k) < ParseFloat(s[1]) THEN << k >> \o s
  ELSE << s[1] >> \o InsertIndexKey(Tail(s), k)

\* Object.keys(o) for an object whose keys were inserted in the order of
\* list: index keys ascending by value, then the others in insertion order.
RECURSIVE ObjectKeysLoop(_, _, _, _)
ObjectKeysLoop(list, i, indexKeys, otherKeys) ==
  IF i > Len(list) THEN indexKeys \o otherKeys
  ELSE IF IsIndexKey(list[i])
  THEN ObjectKeysLoop(list, i + 1, InsertIndexKey(indexKeys, list[i]), otherKeys)
  ELSE ObjectKeysLoop(list, i + 1, indexKeys, Append(otherKeys, list[i]))

ObjectKeys(list) == ObjectKeysLoop(list, 1, <<>>, <<>>)

Endpoints == { Number(n) : n \in 0..MaxNumber } \cup { Star }

\* No TokenSet is being built.
TSIdle ==
  /\ arr = <<>>
  /\ pos = 0
  /\ heap = <<>>
  /\ builder = <<>>
  /\ phase = "idle"
  /\ words = <<>>
  /\ qstr = <<>>
  /\ qedits = 0
  /\ expanded = <<>>
  /\ tsThrown = ""

NMInit ==
  /\ TSIdle
  /\ IdxIdle
  /\ AuxIdle
  /\ nmKeys \in { ObjectKeys(l) : l \in SortedLists(NumberTerms, MaxKeys) }
  /\ nmPos = 0
  /\ nmMap = <<>>
  /\ nmEntries = <<>>
  /\ nmPhase = "adding"
  /\ nmQuery = <<>>
  /\ nmResult = <<>>

\* One iteration of the loop of NumberMap.fromInvertedIndex.
FromInvertedIndexStep ==
  /\ nmPhase = "adding"
  /\ nmPos < Len(nmKeys)
  /\ LET term   == nmKeys[nmPos + 1]
         number == ParseFloat(term)
     IN  nmMap' = IF IsFinite(number) THEN BuilderAdd(nmMap, number, term) ELSE nmMap
  /\ nmPos' = nmPos + 1
  /\ UNCHANGED <<nmKeys, nmEntries, nmPhase, nmQuery, nmResult, nmOthers>>

\* return numbersBuilder.build()
FromInvertedIndexBuild ==
  /\ nmPhase = "adding"
  /\ nmPos = Len(nmKeys)
  /\ nmEntries' = BuilderBuild(nmMap)
  /\ nmPhase' = "built"
  /\ UNCHANGED <<nmKeys, nmPos, nmMap, nmQuery, nmResult, nmOthers>>

\* numberMap.matchRange(start, end)
MatchRangeCall ==
  /\ nmPhase = "built"
  /\ \E start \in Endpoints, end \in Endpoints :
       /\ nmQuery' = << start, end >>
       /\ nmResult' = MatchRange(nmEntries, start, end)
  /\ nmPhase' = "range"
  /\ UNCHANGED <<nmKeys, nmPos, nmMap, nmEntries, nmOthers>>

\* numberMap.matchComparator(comparator, comparand)
MatchComparatorCall ==
  /\ nmPhase = "built"
  /\ \E comparator \in Comparators, comparand \in 0..MaxNumber :
       /\ nmQuery' = << comparator, comparand >>
       /\ nmResult' = MatchComparator(nmEntries, comparator, comparand)
  /\ nmPhase' = "comparator"
  /\ UNCHANGED <<nmKeys, nmPos, nmMap, nmEntries, nmOthers>>

NMNext ==
  FromInvertedIndexStep \/ FromInvertedIndexBuild \/ MatchRangeCall \/ MatchComparatorCall

SpecNumberMap == NMInit /\ [][NMNext]_vars

-----------------------------------------------------------------------------
(* Properties of the NumberMap *)

\* The tokens of the entries whose value satisfies P.
TokensWhere(entries, P(_)) ==
  UNION { Range(entries[i].tokens) : i \in { j \in 1..Len(entries) : P(entries[j].value) } }

Compare(v, op, x) ==
  IF op = ">" THEN v > x
  ELSE IF op = ">=" THEN v >= x
  ELSE IF op = "<" THEN v < x
  ELSE v <= x

\* C7: matchRange(lo, hi) with numeric endpoints returns exactly the tokens
\* of the entries whose value v satisfies lo <= v <= hi.
C7_MatchRangeInclusive ==
  (nmPhase = "range" /\ nmQuery[1] # Star /\ nmQuery[2] # Star)
    => LET InRange(v) == nmQuery[1][1] <= v /\ v <= nmQuery[2][1]
       IN  Range(nmResult) = TokensWhere(nmEntries, InRange)

\* C8: matchComparator(op, x) returns exactly the tokens of the entries
\* whose value v satisfies v op x, whether or not x is an entry value.
C8_MatchComparatorExact ==
  nmPhase = "comparator"
    => LET Holds(v) == Compare(v, nmQuery[1], nmQuery[2])
       IN  Range(nmResult) = TokensWhere(nmEntries, Holds)

-----------------------------------------------------------------------------
(* Vector: a list of (index, value) pairs kept in ascending index order.   *)
(* Values are in thousandths.                                              *)

\* Vector.positionForIndex(index) that answers the end of the vector
PositionForIndexAtEnd(elements, insertIdx) == Len(elements)

\* Vector.positionForIndex(index), counted in pairs.
PositionForIndex(elements, insertIdx) ==
  IF Len(elements) = 0 THEN 0
  ELSE BinarySearchKey([ i \in 1..Len(elements) |-> elements[i].index ],
                       insertIdx, "LEAST_UPPER_BOUND")

\* Vector.upsert(insertIdx, val, fn) with fn = function (a, b) { return a + b }
Upsert(elements, insertIdx, val) ==
  LET position == PositionForIndex(elements, insertIdx)
  IN  IF position < Len(elements) /\ elements[position + 1].index = insertIdx
      THEN [ elements EXCEPT ![position + 1].value = @ + val ]
      ELSE SubSeq(elements, 1, position)
             \o << [ index |-> insertIdx, value |-> val ] >>
             \o SubSeq(elements, position + 1, Len(elements))

\* Vector.insert(insertIdx, val): upsert whose fn throws "duplicate index";
\* the Builder inserts each term index once per vector.
VectorInsert(elements, insertIdx, val) ==
  LET position == PositionForIndex(elements, insertIdx)
  IN  SubSeq(elements, 1, position)
        \o << [ index |-> insertIdx, value |-> val ] >>
        \o SubSeq(elements, position + 1, Len(elements))

\* Vector.insert(insertIdx, val) that stores val before it throws
VectorInsertCallOverwriting(elements, insertIdx, val) ==
  LET position == PositionForIndex(elements, insertIdx)
  IN  IF position < Len(elements) /\ elements[position + 1].index = insertIdx
      THEN [ elements |-> [ elements EXCEPT ![position + 1].value = val ],
             thrown   |-> "duplicate index" ]
      ELSE [ elements |-> VectorInsert(elements, insertIdx, val), thrown |-> "" ]

\* Vector.insert(insertIdx, val), the whole call: upsert finds the position
\* and, where insertIdx is stored there, calls fn, which throws before the
\* assignment to elements[position + 1].
VectorInsertCall(elements, insertIdx, val) ==
  LET position == PositionForIndex(elements, insertIdx)
  IN  IF position < Len(elements) /\ elements[position + 1].index = insertIdx
      THEN [ elements |-> elements, thrown |-> "duplicate index" ]
      ELSE [ elements |-> VectorInsert(elements, insertIdx, val), thrown |-> "" ]

RECURSIVE SumOfSquares(_, _)
SumOfSquares(elements, i) ==
  IF i > Len(elements) THEN 0
  ELSE elements[i].value * elements[i].value + SumOfSquares(elements, i + 1)

RECURSIVE SqrtLoop(_, _, _)
SqrtLoop(x, lo, hi) ==
  IF lo >= hi THEN lo
  ELSE LET mid == (lo + hi + 1) \div 2
       IN  IF mid * mid <= x THEN SqrtLoop(x, mid, hi) ELSE SqrtLoop(x, lo, mid - 1)

\* Math.sqrt(x), rounded down; 46340 is the largest root of a 32-bit integer.
Sqrt(x) == SqrtLoop(x, 0, IF x < 46340 THEN x ELSE 46340)

\* Vector.dot(otherVector) that steps over both vectors when a's index is smaller
RECURSIVE DotSkippingBoth(_, _, _, _)
DotSkippingBoth(a, b, i, j) ==
  IF i > Len(a) \/ j > Len(b) THEN 0
  ELSE IF a[i].index < b[j].index THEN DotSkippingBoth(a, b, i + 1, j + 1)
  ELSE IF a[i].index > b[j].index THEN DotSkippingBoth(a, b, i, j + 1)
  ELSE a[i].value * b[j].value + DotSkippingBoth(a, b, i + 1, j + 1)

\* Vector.dot(otherVector)
RECURSIVE Dot(_, _, _, _)
Dot(a, b, i, j) ==
  IF i > Len(a) \/ j > Len(b) THEN 0
  ELSE IF a[i].index < b[j].index THEN Dot(a, b, i + 1, j)
  ELSE IF a[i].index > b[j].index THEN Dot(a, b, i, j + 1)
  ELSE a[i].value * b[j].value + Dot(a, b, i + 1, j + 1)

\* Vector.similarity(otherVector): dot / magnitude || 0.  The query vector a
\* holds whole numbers (sums of boosts) and b holds thousandths; the result
\* is in thousandths, rounded down, and 0 where the division gives NaN.
Similarity(a, b) ==
  LET magnitude == Sqrt(SumOfSquares(a, 1) * 1000000)
  IN  IF magnitude = 0 THEN 0
      ELSE (Dot(a, b, 1, 1) * 1000) \div magnitude

-----------------------------------------------------------------------------
(* lunr.Builder with the fields "title" and "body", both of type string,   *)
(* no boosts, and empty pipelines.  A document gives each field as an      *)
(* array of lower-case words, which the tokenizer turns into one token per *)
(* word.                                                                   *)

Fields == << "title", "body" >>

FieldNames == Range(Fields)

\* new lunr.Builder
NewLunrBuilder ==
  [ fields               |-> <<>>,   \* Object.keys(this._fields)
    documentCount        |-> 0,
    termIndex            |-> 0,
    invertedIndex        |-> <<>>,   \* (term, _index, posting) in insertion order
    fieldTermFrequencies |-> <<>>,   \* (docRef, fieldName, fieldLength, terms) per field ref
    searchPipeline       |-> <<>>,   \* the functions of searchPipeline
    error                |-> "none" ]\* what the last call threw

\* Builder.field(fieldName): this._fields[fieldName] = attributes
Field(b, fieldName) ==
  IF \E i \in 1..Len(b.fields) : b.fields[i] = fieldName THEN b
  ELSE [ b EXCEPT !.fields = Append(@, fieldName) ]

\* new lunr.Builder, after field("title") and field("body")
NewIndexBuilder == Field(Field(NewLunrBuilder, "title"), "body")

HasTerm(invertedIndex, term) ==
  \E i \in 1..Len(invertedIndex) : invertedIndex[i].term = term

TermPosition(invertedIndex, term) ==
  CHOOSE i \in 1..Len(invertedIndex) : invertedIndex[i].term = term

\* invertedIndex[term]
PostingOf(invertedIndex, term) == invertedIndex[TermPosition(invertedIndex, term)]

Contains(seq, x) == \E i \in 1..Len(seq) : seq[i] = x

\* fieldTerms[term] += 1, starting from 0
CountTerm(fieldTerms, term) ==
  IF \E i \in 1..Len(fieldTerms) : fieldTerms[i].term = term
  THEN [ i \in 1..Len(fieldTerms) |->
           IF fieldTerms[i].term = term
           THEN [ fieldTerms[i] EXCEPT !.tf = @ + 1 ]
           ELSE fieldTerms[i] ]
  ELSE Append(fieldTerms, [ term |-> term, tf |-> 1 ])

\* The body of the loop over the terms that takes a new termIndex for every
\* occurrence of a term
AddTermCountingOccurrences(acc, docRef, fieldName, term) ==
  LET b    == acc.b
      inv1 == IF HasTerm(b.invertedIndex, term) THEN b.invertedIndex
              ELSE Append(b.invertedIndex,
                          [ term    |-> term,
                            index   |-> b.termIndex,
                            posting |-> [ f \in Range(b.fields) |-> <<>> ] ])
      p    == TermPosition(inv1, term)
      inv2 == IF Contains(inv1[p].posting[fieldName], docRef) THEN inv1
              ELSE [ inv1 EXCEPT ![p].posting[fieldName] = Append(@, docRef) ]
  IN  [ b |-> [ b EXCEPT !.invertedIndex = inv2, !.termIndex = @ + 1 ],
        fieldTerms |-> CountTerm(acc.fieldTerms, term) ]

\* The body of the loop over the terms of one field in Builder.add; acc is
\* the builder and the term frequencies of the field.  A posting is created
\* with an entry for each field registered now; reading [docRef] of the
\* entry of fieldName in a posting that has none throws a TypeError.
AddTerm(acc, docRef, fieldName, term) ==
  LET b     == acc.b
      inv1  == IF HasTerm(b.invertedIndex, term) THEN b.invertedIndex
               ELSE Append(b.invertedIndex,
                           [ term    |-> term,
                             index   |-> b.termIndex,
                             posting |-> [ f \in Range(b.fields) |-> <<>> ] ])
      p     == TermPosition(inv1, term)
      b1    == [ b EXCEPT !.invertedIndex = inv1,
                          !.termIndex = IF HasTerm(b.invertedIndex, term) THEN @ ELSE @ + 1 ]
      terms == CountTerm(acc.fieldTerms, term)
  IN  IF fieldName \notin DOMAIN inv1[p].posting
      THEN [ b |-> [ b1 EXCEPT !.error = "TypeError" ], fieldTerms |-> terms ]
      ELSE IF Contains(inv1[p].posting[fieldName], docRef)
      THEN [ b |-> b1, fieldTerms |-> terms ]
      ELSE [ b |-> [ b1 EXCEPT !.invertedIndex[p].posting[fieldName] = Append(@, docRef) ],
             fieldTerms |-> terms ]

RECURSIVE AddTerms(_, _, _, _, _)
AddTerms(acc, docRef, fieldName, terms, i) ==
  IF i > Len(terms) \/ acc.b.error # "none" THEN acc
  ELSE AddTerms(AddTerm(acc, docRef, fieldName, terms[i]), docRef, fieldName, terms, i + 1)

\* this.fieldTermFrequencies[fieldRef] = fieldTerms, with the field length
PutFieldTerms(ftf, entry) ==
  IF \E i \in 1..Len(ftf) : ftf[i].docRef = entry.docRef /\ ftf[i].fieldName = entry.fieldName
  THEN [ i \in 1..Len(ftf) |->
           IF ftf[i].docRef = entry.docRef /\ ftf[i].fieldName = entry.fieldName
           THEN entry ELSE ftf[i] ]
  ELSE Append(ftf, entry)

\* The body of the loop over the fields in Builder.add.
AddField(b, doc, fieldName) ==
  LET terms == doc[fieldName]
      acc   == AddTerms([ b |-> b, fieldTerms |-> <<>> ], doc.ref, fieldName, terms, 1)
  IN  [ acc.b EXCEPT !.fieldTermFrequencies =
          PutFieldTerms(@, [ docRef      |-> doc.ref,
                             fieldName   |-> fieldName,
                             fieldLength |-> Len(terms),
                             terms       |-> acc.fieldTerms ]) ]

RECURSIVE AddFields(_, _, _)
AddFields(b, doc, i) ==
  IF i > Len(b.fields) \/ b.error # "none" THEN b
  ELSE AddFields(AddField(b, doc, b.fields[i]), doc, i + 1)

\* Builder.add(doc)
Add(b, doc) == AddFields([ b EXCEPT !.documentCount = @ + 1, !.error = "none" ], doc, 1)

\* Math.log(n) for whole n from 1 to 20, in thousandths.
LogTable ==
  << 0, 693, 1099, 1386, 1609, 1792, 1946, 2079, 2197, 2303,
     2398, 2485, 2565, 2639, 2708, 2773, 2833, 2890, 2944, 2996 >>

Abs(x) == IF x < 0 THEN -x ELSE x

RECURSIVE DocumentsWithTerm(_, _)
DocumentsWithTerm(posting, i) ==
  IF i > Len(Fields) THEN 0
  ELSE Len(posting[Fields[i]]) + DocumentsWithTerm(posting, i + 1)

\* lunr.idf(posting, documentCount), in thousandths:
\* x = (documentCount - n + 0.5) / (n + 0.5), and log(1 + |x|) is the log of
\* (2n + 1 + |2 documentCount - 2n + 1|) / (2n + 1).
Idf(posting, documentCount) ==
  LET n == DocumentsWithTerm(posting, 1)
  IN  LogTable[2 * n + 1 + Abs(2 * documentCount - 2 * n + 1)] - LogTable[2 * n + 1]

\* Builder._k1 in tenths, and Builder._b in hundredths.
K1 == 12

B == 75

\* Math.round(n / d) for n >= 0 and d > 0.
Round(n, d) == (2 * n + d) \div (2 * d)

RECURSIVE SumFieldLengths(_, _, _)
SumFieldLengths(ftf, fieldName, i) ==
  IF i > Len(ftf) THEN 0
  ELSE (IF ftf[i].fieldName = fieldName THEN ftf[i].fieldLength ELSE 0)
         + SumFieldLengths(ftf, fieldName, i + 1)

\* Builder.calculateAverageFieldLengths: per field, the accumulated length
\* and the number of documents with the field, whose quotient is the average.
CalculateAverageFieldLengths(b) ==
  [ f \in FieldNames |->
      [ accumulator        |-> SumFieldLengths(b.fieldTermFrequencies, f, 1),
        documentsWithField |-> Cardinality({ i \in 1..Len(b.fieldTermFrequencies) :
                                               b.fieldTermFrequencies[i].fieldName = f }) ] ]

\* score = idf * ((k1 + 1) * tf) / (k1 * (1 - b + b * (fieldLength / average)) + tf),
\* then Math.round(score * 1000) / 1000; the result is in thousandths.
ScoreWithPrecision(idf, tf, fieldLength, average) ==
  LET a == average.accumulator
      d == average.documentsWithField
  IN  Round(idf * (K1 + 10) * tf * 100 * a,
            K1 * ((100 - B) * a + B * fieldLength * d) + 1000 * tf * a)

\* The loop over the terms of one field ref in Builder.createFieldVectors.
RECURSIVE FieldVectorLoop(_, _, _, _, _, _)
FieldVectorLoop(b, entry, average, terms, j, fieldVector) ==
  IF j > Len(terms) THEN fieldVector
  ELSE LET term    == terms[j]
           tf      == entry.terms[CHOOSE i \in 1..Len(entry.terms) :
                                    entry.terms[i].term = term].tf
           posting == PostingOf(b.invertedIndex, term)
           score   == ScoreWithPrecision(Idf(posting.posting, b.documentCount), tf,
                                         entry.fieldLength, average)
       IN  FieldVectorLoop(b, entry, average, terms, j + 1,
                           VectorInsert(fieldVector, posting.index, score))

\* Builder.createFieldVectors(averageFieldLength): one vector per field ref,
\* in the order of Object.keys(this.fieldTermFrequencies).
CreateFieldVectors(b, averageFieldLength) ==
  [ i \in 1..Len(b.fieldTermFrequencies) |->
      LET entry == b.fieldTermFrequencies[i]
          terms == ObjectKeys([ k \in 1..Len(entry.terms) |-> entry.terms[k].term ])
      IN  [ docRef    |-> entry.docRef,
            fieldName |-> entry.fieldName,
            elements  |-> FieldVectorLoop(b, entry, averageFieldLength[entry.fieldName],
                                          terms, 1, <<>>) ] ]

\* The terms of the inverted index, in insertion order.
TermsOf(invertedIndex) == [ i \in 1..Len(invertedIndex) |-> invertedIndex[i].term ]

\* Builder.createTokenSet(), allocating in heap h.
CreateTokenSet(h, invertedIndex) == FromArray(h, SortStrings(TermsOf(invertedIndex)))

RECURSIVE NumberMapLoop(_, _, _)
NumberMapLoop(keys, i, map) ==
  IF i > Len(keys) THEN map
  ELSE LET number == ParseFloat(keys[i])
       IN  NumberMapLoop(keys, i + 1,
                         IF IsFinite(number) THEN BuilderAdd(map, number, keys[i]) ELSE map)

\* NumberMap.fromInvertedIndex(invertedIndex)
FromInvertedIndex(keys) == BuilderBuild(NumberMapLoop(keys, 1, <<>>))

\* Builder.build(): the Index and the heap its token set was allocated in.
Build(h, b) ==
  LET tokenSet == CreateTokenSet(h, b.invertedIndex)
  IN  [ heap  |-> tokenSet.heap,
        index |-> [ invertedIndex |-> b.invertedIndex,
                    fieldVectors  |-> CreateFieldVectors(b, CalculateAverageFieldLengths(b)),
                    tokenSet      |-> tokenSet.root,
                    numberMap     |-> FromInvertedIndex(ObjectKeys(TermsOf(b.invertedIndex))),
                    fields        |-> b.fields,
                    pipeline      |-> b.searchPipeline ] ]

-----------------------------------------------------------------------------
(* lunr.Set: the complete set, or a finite set of document refs; the       *)
(* finite set without elements is Set.empty.  A record entry that was      *)
(* never assigned is Undefined.                                            *)

SetComplete == [ kind |-> "complete", elements |-> {} ]

SetEmpty == [ kind |-> "finite", elements |-> {} ]

Undefined == [ kind |-> "undefined", elements |-> {} ]

\* new lunr.Set(elements)
NewSet(elements) == [ kind |-> "finite", elements |-> Range(elements) ]

\* set.contains(object)
SetContains(set, object) == set.kind = "complete" \/ object \in set.elements

\* set.intersect(other)
SetIntersect(set, other) ==
  IF set.kind = "complete" THEN other
  ELSE IF set.elements = {} THEN set
  ELSE IF other.kind = "complete" THEN set
  ELSE [ kind |-> "finite", elements |-> set.elements \cap other.elements ]

\* set.union(other).  The union of Set.complete returns this in lib/set.ts
\* and returns other in lunr.js.
SetUnion(source, set, other) ==
  IF set.kind = "complete" THEN (IF source = "lunr.js" THEN other ELSE set)
  ELSE IF set.elements = {} THEN other
  ELSE IF other.kind = "complete" THEN SetComplete
  ELSE [ kind |-> "finite", elements |-> set.elements \cup other.elements ]

-----------------------------------------------------------------------------
(* Pipeline: a stack of functions, here by name *)

\* The tokens run through the pipeline.
PipelineTokens == { "a", "b", "c" }

\* What a pipeline function returns: a token, a list of tokens, or one of
\* null, undefined and ''.
FnResult(kind, tokens) == [ kind |-> kind, tokens |-> tokens ]

\* The functions on the stack, fn(token, j, tokens) with j counted from 1:
\* one that filters, one that returns null and '', one that returns lists
\* (an empty one too), and one that reads its neighbour in the complete list.
PipelineFunctions == { "stopWord", "nothing", "split", "neighbour" }

\* The words a stop word filter registered on a search pipeline discards.
StopWords == { << "h", "a", "t" >> }

Call(fn, token, j, tokens) ==
  CASE fn = "stopWord" ->
         IF token = "b" THEN FnResult("undefined", <<>>) ELSE FnResult("token", << token >>)
    [] fn = "nothing" ->
         IF token = "a" THEN FnResult("null", <<>>)
         ELSE IF token = "c" THEN FnResult("''", <<>>)
         ELSE FnResult("token", << token >>)
    [] fn = "split" ->
         IF token = "c" THEN FnResult("list", << "a", "b" >>)
         ELSE IF token = "b" THEN FnResult("list", <<>>)
         ELSE FnResult("token", << token >>)
    [] fn = "stopWordFilter" ->
         IF token \in StopWords THEN FnResult("undefined", <<>>) ELSE FnResult("token", << token >>)
    [] fn = "neighbour" ->
         FnResult("token", << IF j < Len(tokens) THEN tokens[j + 1] ELSE token >>)

\* The loop over the tokens that puts a list result in front of memo
RECURSIVE StageMemoPrepending(_, _, _, _)
StageMemoPrepending(fn, tokens, j, memo) ==
  IF j > Len(tokens) THEN memo
  ELSE LET result == Call(fn, tokens[j], j, tokens)
       IN  IF result.kind \in { "null", "undefined", "''" }
           THEN StageMemoPrepending(fn, tokens, j + 1, memo)
           ELSE IF result.kind = "list"
           THEN StageMemoPrepending(fn, tokens, j + 1, result.tokens \o memo)
           ELSE StageMemoPrepending(fn, tokens, j + 1, Append(memo, result.tokens[1]))

\* for (let j = 0; j < tokens.length; j++) { ...; memo.push(...) }
RECURSIVE StageMemo(_, _, _, _)
StageMemo(fn, tokens, j, memo) ==
  IF j > Len(tokens) THEN memo
  ELSE LET result == Call(fn, tokens[j], j, tokens)
           \* for (let k = 0; k < result.length; k++) memo.push(result[k])
           RECURSIVE PushAll(_, _)
           PushAll(m, k) ==
             IF k > Len(result.tokens) THEN m
             ELSE PushAll(Append(m, result.tokens[k]), k + 1)
       IN  IF result.kind \in { "null", "undefined", "''" }
           THEN StageMemo(fn, tokens, j + 1, memo)
           ELSE IF result.kind = "list"
           THEN StageMemo(fn, tokens, j + 1, PushAll(memo, 1))
           ELSE StageMemo(fn, tokens, j + 1, Append(memo, result.tokens[1]))

\* Pipeline.run(tokens): the functions of the stack from the i-th on.
RECURSIVE Run(_, _, _)
Run(stack, tokens, i) ==
  IF i > Len(stack) THEN tokens
  ELSE Run(stack, StageMemo(stack[i], tokens, 1, <<>>), i + 1)

-----------------------------------------------------------------------------
(* Index.query *)

\* Pipeline.runString(str): the one token of str run through the stack.
RunString(pipeline, str) == Run(pipeline, << str >>, 1)

\* The two sources of Index.query in the repository; they differ in the
\* initial value of clauseMatches and in nothing else.
Sources == { "lib/builder.ts", "lunr.js" }

\* let clauseMatches = lunr.Set.empty (lib/builder.ts)
\* var clauseMatches = lunr.Set.complete (lunr.js)
InitialClauseMatches(source) == IF source = "lunr.js" THEN SetComplete ELSE SetEmpty

\* The state of a running query.
NewQueryState(source) ==
  [ source            |-> source,
    matchingFields    |-> <<>>,   \* the keys of matchingFields, in insertion order
    queryVectors      |-> [ f \in FieldNames |-> <<>> ],
    termFieldCache    |-> {},
    requiredMatches   |-> [ f \in FieldNames |-> Undefined ],
    prohibitedMatches |-> [ f \in FieldNames |-> Undefined ],
    clauseMatches     |-> InitialClauseMatches(source),
    error             |-> "none" ]

\* The loop over matchingDocumentRefs: a MatchData per field ref not seen yet.
RECURSIVE AddMatchingFields(_, _, _, _)
AddMatchingFields(matchingFields, refs, field, l) ==
  IF l > Len(refs) THEN matchingFields
  ELSE LET fieldRef == [ fieldName |-> field, docRef |-> refs[l] ]
       IN  AddMatchingFields(IF Contains(matchingFields, fieldRef) THEN matchingFields
                             ELSE Append(matchingFields, fieldRef),
                             refs, field, l + 1)

\* The body of the loop over clause.fields for one expanded term.
QueryField(q, clause, posting, field) ==
  LET matchingDocumentRefs == posting.posting[field]
      matchingDocumentsSet == NewSet(matchingDocumentRefs)
      termField == << posting.term, field >>
      q1 == IF clause.presence = "REQUIRED"
            THEN [ q EXCEPT !.clauseMatches = SetUnion(q.source, @, matchingDocumentsSet),
                            !.requiredMatches[field] =
                               IF @ = Undefined THEN SetComplete ELSE @ ]
            ELSE q
  IN  IF clause.presence = "PROHIBITED"
      THEN [ q1 EXCEPT !.prohibitedMatches[field] =
               SetUnion(q.source, IF @ = Undefined THEN SetEmpty ELSE @, matchingDocumentsSet) ]
      ELSE LET q2 == [ q1 EXCEPT !.queryVectors[field] = Upsert(@, posting.index, clause.boost) ]
           IN  IF termField \in q2.termFieldCache THEN q2
               ELSE [ q2 EXCEPT !.matchingFields =
                                   AddMatchingFields(@, matchingDocumentRefs, field, 1),
                                !.termFieldCache = @ \cup { termField } ]

RECURSIVE QueryFields(_, _, _, _)
QueryFields(q, clause, posting, i) ==
  IF i > Len(clause.fields) THEN q
  ELSE QueryFields(QueryField(q, clause, posting, clause.fields[i]), clause, posting, i + 1)

\* The loop over expandedTerms; reading _index of a posting the inverted
\* index does not hold throws a TypeError.
RECURSIVE QueryExpandedTerms(_, _, _, _, _)
QueryExpandedTerms(q, idx, clause, expandedTerms, k) ==
  IF k > Len(expandedTerms) \/ q.error # "none" THEN q
  ELSE IF ~HasTerm(idx.invertedIndex, expandedTerms[k])
  THEN [ q EXCEPT !.error = "TypeError" ]
  ELSE QueryExpandedTerms(
         QueryFields(q, clause, PostingOf(idx.invertedIndex, expandedTerms[k]), 1),
         idx, clause, expandedTerms, k + 1)

\* requiredMatches[field] = lunr.Set.empty for every field of the clause
RECURSIVE RequireNothing(_, _, _)
RequireNothing(requiredMatches, fields, i) ==
  IF i > Len(fields) THEN requiredMatches
  ELSE RequireNothing([ requiredMatches EXCEPT ![fields[i]] = SetEmpty ], fields, i + 1)

\* The loop over the terms of a clause, with its break.
RECURSIVE QueryTerms(_, _, _, _, _, _)
QueryTerms(q, h, idx, clause, terms, m) ==
  IF m > Len(terms) \/ q.error # "none" THEN q
  ELSE LET expandedTerms == Expand(h, idx.tokenSet, FromString(h, terms[m]))
       IN  IF Len(expandedTerms) = 0 /\ clause.presence = "REQUIRED"
           THEN [ q EXCEPT !.requiredMatches = RequireNothing(@, clause.fields, 1) ]
           ELSE QueryTerms(QueryExpandedTerms(q, idx, clause, expandedTerms, 1),
                           h, idx, clause, terms, m + 1)

\* requiredMatches[field] = requiredMatches[field].intersect(clauseMatches);
\* calling intersect on an entry that was never assigned throws a TypeError.
RECURSIVE IntersectRequired(_, _, _)
IntersectRequired(q, fields, i) ==
  IF i > Len(fields) \/ q.error # "none" THEN q
  ELSE IF q.requiredMatches[fields[i]] = Undefined
  THEN [ q EXCEPT !.error = "TypeError" ]
  ELSE IntersectRequired(
         [ q EXCEPT !.requiredMatches[fields[i]] = SetIntersect(@, q.clauseMatches) ],
         fields, i + 1)

\* The body of the loop over query.clauses.
QueryClause(q, h, idx, clause) ==
  LET terms == IF clause.usePipeline THEN RunString(idx.pipeline, clause.term)
               ELSE << clause.term >>
      q1    == QueryTerms([ q EXCEPT !.clauseMatches = InitialClauseMatches(q.source) ], h, idx, clause, terms, 1)
  IN  IF clause.presence = "REQUIRED" THEN IntersectRequired(q1, clause.fields, 1) ELSE q1

RECURSIVE QueryClauses(_, _, _, _, _)
QueryClauses(q, h, idx, query, i) ==
  IF i > Len(query) \/ q.error # "none" THEN q
  ELSE QueryClauses(QueryClause(q, h, idx, query[i]), h, idx, query, i + 1)

\* CombineMatches with the prohibited sets intersected, as the required sets
\* are, instead of united.
RECURSIVE CombineMatchesIntersecting(_, _, _, _)
CombineMatchesIntersecting(q, fields, i, acc) ==
  IF i > Len(fields) THEN acc
  ELSE LET field == fields[i]
       IN  CombineMatchesIntersecting(q, fields, i + 1,
             [ allRequiredMatches |->
                 IF q.requiredMatches[field] # Undefined
                 THEN SetIntersect(acc.allRequiredMatches, q.requiredMatches[field])
                 ELSE acc.allRequiredMatches,
               allProhibitedMatches |->
                 IF q.prohibitedMatches[field] # Undefined
                 THEN SetIntersect(acc.allProhibitedMatches, q.prohibitedMatches[field])
                 ELSE acc.allProhibitedMatches ])

\* The loop over this.fields that combines the per-field sets.
RECURSIVE CombineMatches(_, _, _, _)
CombineMatches(q, fields, i, acc) ==
  IF i > Len(fields) THEN acc
  ELSE LET field == fields[i]
       IN  CombineMatches(q, fields, i + 1,
             [ allRequiredMatches |->
                 IF q.requiredMatches[field] # Undefined
                 THEN SetIntersect(acc.allRequiredMatches, q.requiredMatches[field])
                 ELSE acc.allRequiredMatches,
               allProhibitedMatches |->
                 IF q.prohibitedMatches[field] # Undefined
                 THEN SetUnion(q.source, acc.allProhibitedMatches, q.prohibitedMatches[field])
                 ELSE acc.allProhibitedMatches ])

\* Query.isNegated()
IsNegated(query) == \A i \in 1..Len(query) : query[i].presence = "PROHIBITED"

\* this.fieldVectors[fieldRef]
FieldVectorOf(fieldVectors, fieldRef) ==
  fieldVectors[CHOOSE i \in 1..Len(fieldVectors) :
                 /\ fieldVectors[i].docRef = fieldRef.docRef
                 /\ fieldVectors[i].fieldName = fieldRef.fieldName].elements

\* The loop over matchingFieldRefs that scores and collects the results.
RECURSIVE CollectResults(_, _, _, _, _, _)
CollectResults(q, idx, all, matchingFieldRefs, i, results) ==
  IF i > Len(matchingFieldRefs) THEN results
  ELSE LET fieldRef == matchingFieldRefs[i]
           docRef   == fieldRef.docRef
       IN  IF ~SetContains(all.allRequiredMatches, docRef)
              \/ SetContains(all.allProhibitedMatches, docRef)
           THEN CollectResults(q, idx, all, matchingFieldRefs, i + 1, results)
           ELSE LET score == Similarity(q.queryVectors[fieldRef.fieldName],
                                        FieldVectorOf(idx.fieldVectors, fieldRef))
                    next  == IF \E k \in 1..Len(results) : results[k].ref = docRef
                             THEN [ k \in 1..Len(results) |->
                                      IF results[k].ref = docRef
                                      THEN [ results[k] EXCEPT !.score = @ + score ]
                                      ELSE results[k] ]
                             ELSE Append(results, [ ref |-> docRef, score |-> score ])
                IN  CollectResults(q, idx, all, matchingFieldRefs, i + 1, next)

\* InsertResult placing a result before the results of equal score: a sort
\* that is not stable.
RECURSIVE InsertResultBeforeEqual(_, _)
InsertResultBeforeEqual(sorted, x) ==
  IF sorted = <<>> THEN << x >>
  ELSE IF sorted[Len(sorted)].score > x.score THEN Append(sorted, x)
  ELSE Append(InsertResultBeforeEqual(SubSeq(sorted, 1, Len(sorted) - 1), x),
              sorted[Len(sorted)])

\* results.sort((a, b) => b.score - a.score): a stable sort, descending.
RECURSIVE InsertResult(_, _)
InsertResult(sorted, x) ==
  IF sorted = <<>> THEN << x >>
  ELSE IF sorted[Len(sorted)].score >= x.score THEN Append(sorted, x)
  ELSE Append(InsertResult(SubSeq(sorted, 1, Len(sorted) - 1), x), sorted[Len(sorted)])

RECURSIVE SortResults(_, _, _)
SortResults(results, i, sorted) ==
  IF i > Len(results) THEN sorted
  ELSE SortResults(results, i + 1, InsertResult(sorted, results[i]))

\* The field refs of the index, in the order of Object.keys(this.fieldVectors).
FieldRefsOf(fieldVectors) ==
  [ i \in 1..Len(fieldVectors) |->
      [ fieldName |-> fieldVectors[i].fieldName, docRef |-> fieldVectors[i].docRef ] ]

\* The results before the final sort, in the order they were pushed.
Matches(q, idx, query) ==
  LET all == CombineMatches(q, idx.fields, 1,
               [ allRequiredMatches |-> SetComplete, allProhibitedMatches |-> SetEmpty ])
      matchingFieldRefs == IF IsNegated(query) THEN FieldRefsOf(idx.fieldVectors)
                           ELSE q.matchingFields
  IN  CollectResults(q, idx, all, matchingFieldRefs, 1, <<>>)

\* What the loop over query.clauses has collected in the locals of query.
Collected(q) ==
  [ requiredMatches   |-> q.requiredMatches,
    prohibitedMatches |-> q.prohibitedMatches,
    queryVectors      |-> q.queryVectors,
    matchingFields    |-> q.matchingFields ]

\* index.query(fn) as source has it, where fn adds the clauses of query: what
\* it returns, or the error it throws.  pushed is the result list before the
\* final sort, collected the locals at the end of the loop over the clauses.
Query(source, h, idx, query) ==
  LET q == QueryClauses(NewQueryState(source), h, idx, query, 1)
  IN  IF q.error # "none"
      THEN [ error |-> q.error, results |-> <<>>, pushed |-> <<>>, collected |-> Collected(q) ]
      ELSE LET pushed == Matches(q, idx, query)
           IN  [ error     |-> "none",
                 results   |-> SortResults(pushed, 1, <<>>),
                 pushed    |-> pushed,
                 collected |-> Collected(q) ]

-----------------------------------------------------------------------------
(* Index.toJSON and Index.load *)

\* index.toJSON(): the inverted index as (term, posting) pairs sorted by
\* term, the field vectors as (ref, elements) pairs in their own order.
ToJSON(idx) ==
  LET terms == SortStrings(TermsOf(idx.invertedIndex))
  IN  [ fields        |-> idx.fields,
        fieldVectors  |-> idx.fieldVectors,
        invertedIndex |-> [ i \in 1..Len(terms) |-> PostingOf(idx.invertedIndex, terms[i]) ],
        pipeline      |-> idx.pipeline ]

\* The loop of Index.load over serializedInvertedIndex: tokenSetBuilder.insert(term)
RECURSIVE LoadTerms(_, _, _)
LoadTerms(st, serializedInvertedIndex, i) ==
  IF i > Len(serializedInvertedIndex) THEN st
  ELSE LoadTerms(Insert(st, serializedInvertedIndex[i].term), serializedInvertedIndex, i + 1)

\* Index.load(serializedIndex), allocating the token set in heap h.
Load(h, serializedIndex) ==
  LET st == Finish(LoadTerms(NewBuilder(h), serializedIndex.invertedIndex, 1))
  IN  [ heap  |-> st.heap,
        index |-> [ invertedIndex |-> serializedIndex.invertedIndex,
                    fieldVectors  |-> serializedIndex.fieldVectors,
                    tokenSet      |-> st.b.root,
                    numberMap     |-> FromInvertedIndex(
                                        ObjectKeys(TermsOf(serializedIndex.invertedIndex))),
                    fields        |-> serializedIndex.fields,
                    pipeline      |-> serializedIndex.pipeline ] ]

-----------------------------------------------------------------------------
(* Builder.add per document, then build(); one query on the index, then    *)
(* Index.load(index.toJSON()) and the same query on the loaded index.      *)

Cat == << "c", "a", "t" >>

Hat == << "h", "a", "t" >>

\* What a document can hold in its title and body.
Texts ==
  { [ title |-> << Cat, Hat >>, body |-> << Cat >> ],
    [ title |-> << Hat >>,      body |-> <<>> ],
    [ title |-> <<>>,           body |-> << Cat >> ] }

DocRefs == << "a", "b", "c" >>

\* The documents of a list of texts, with refs "a", "b", ... in order.
WithRefs(texts) ==
  [ i \in 1..Len(texts) |->
      [ ref |-> DocRefs[i], title |-> texts[i].title, body |-> texts[i].body ] ]

\* One document whose body holds the ten numeric terms of DigitList.
DigitCorpus == << [ ref |-> "a", title |-> <<>>, body |-> DigitList ] >>

Corpora == { WithRefs(l) : l \in ListsUpTo(Texts, MaxDocs) } \cup { DigitCorpus }

Presences == { "OPTIONAL", "REQUIRED", "PROHIBITED" }

\* A clause as Query.clause pushes it: boost 1 and usePipeline true unless
\* given, fields all the fields unless given.
Clause(term, fields, presence) ==
  [ term |-> term, fields |-> fields, presence |-> presence, boost |-> 1,
    usePipeline |-> TRUE ]

Clauses ==
  { Clause(Cat, f, p) : f \in { << "title" >>, Fields, <<>> }, p \in Presences }
    \cup { Clause(Hat, f, p) : f \in { << "body" >>, Fields }, p \in Presences }
    \cup { Clause(<< "*", "a", "t" >>, Fields, p) : p \in { "OPTIONAL", "REQUIRED" } }
    \cup { Clause(<< "3", "0", "1" >>, Fields, "OPTIONAL"),
           Clause(<< "3", "0", "2" >>, Fields, "PROHIBITED") }

Queries == { << c >> : c \in Clauses } \cup { << c, d >> : c \in Clauses, d \in Clauses }

Init ==
  /\ TSIdle
  /\ NMIdle
  /\ AuxIdle
  /\ ixSource \in Sources
  /\ ixDocs \in Corpora
  /\ ixBuilder = NewIndexBuilder
  /\ ixNodes = <<>>
  /\ ixIndex = <<>>
  /\ ixLoaded = <<>>
  /\ ixPhase = "adding"
  /\ ixClauses = <<>>
  /\ ixOutcome = <<>>
  /\ ixReloaded = <<>>

\* builder.add(doc) for the next document
AddCall ==
  /\ ixPhase = "adding"
  /\ ixBuilder.documentCount < Len(ixDocs)
  /\ ixBuilder' = Add(ixBuilder, ixDocs[ixBuilder.documentCount + 1])
  /\ UNCHANGED <<ixSource, ixDocs, ixNodes, ixIndex, ixLoaded, ixPhase, ixClauses, ixOutcome,
                 ixReloaded, idxOthers>>

\* builder.build()
BuildCall ==
  /\ ixPhase = "adding"
  /\ ixBuilder.documentCount = Len(ixDocs)
  /\ LET built == Build(ixNodes, ixBuilder)
     IN  /\ ixNodes' = built.heap
         /\ ixIndex' = built.index
  /\ ixPhase' = "built"
  /\ UNCHANGED <<ixSource, ixDocs, ixBuilder, ixLoaded, ixClauses, ixOutcome, ixReloaded, idxOthers>>

\* index.query(...)
QueryCall ==
  /\ ixPhase = "built"
  /\ \E query \in Queries :
       /\ ixClauses' = query
       /\ ixOutcome' = Query(ixSource, ixNodes, ixIndex, query)
  /\ ixPhase' = "queried"
  /\ UNCHANGED <<ixSource, ixDocs, ixBuilder, ixNodes, ixIndex, ixLoaded, ixReloaded, idxOthers>>

\* Index.load(index.toJSON())
LoadCall ==
  /\ ixPhase = "queried"
  /\ LET l == Load(ixNodes, ToJSON(ixIndex))
     IN  /\ ixNodes' = l.heap
         /\ ixLoaded' = l.index
  /\ ixPhase' = "loaded"
  /\ UNCHANGED <<ixSource, ixDocs, ixBuilder, ixIndex, ixClauses, ixOutcome, ixReloaded, idxOthers>>

\* The same query on the loaded index.
QueryLoadedCall ==
  /\ ixPhase = "loaded"
  /\ ixReloaded' = Query(ixSource, ixNodes, ixLoaded, ixClauses)
  /\ ixPhase' = "compared"
  /\ UNCHANGED <<ixSource, ixDocs, ixBuilder, ixNodes, ixIndex, ixLoaded, ixClauses, ixOutcome,
                 idxOthers>>

Next == AddCall \/ BuildCall \/ QueryCall \/ LoadCall \/ QueryLoadedCall

Spec == Init /\ [][Next]_vars

-----------------------------------------------------------------------------
(* Properties of Index.query *)

\* The document added under ref.
DocOf(ref) == ixDocs[CHOOSE i \in 1..Len(ixDocs) : ixDocs[i].ref = ref]

\* The expansion terms of a clause: the index terms its term matches.
ExpansionOf(clause) ==
  Range(Expand(ixNodes, ixIndex.tokenSet, FromString(ixNodes, clause.term)))

\* doc holds an expansion term of clause in one of the fields of clause.
HoldsTermOf(doc, clause) ==
  \E i \in 1..Len(clause.fields) :
    \E t \in ExpansionOf(clause) : Contains(doc[clause.fields[i]], t)

ClausesWith(presence) ==
  { ixClauses[i] : i \in { j \in 1..Len(ixClauses) : ixClauses[j].presence = presence } }

Returned == { ixOutcome.results[i].ref : i \in 1..Len(ixOutcome.results) }

\* C1: every document returned holds, in at least one of the fields of each
\* REQUIRED clause of the query, at least one expansion term of that clause.
C1_RequiredInSomeField ==
  ixPhase = "queried"
    => \A ref \in Returned :
         \A clause \in ClausesWith("REQUIRED") : HoldsTermOf(DocOf(ref), clause)

\* C2: no document returned holds, in a field of a PROHIBITED clause, an
\* expansion term of that clause; and "+cat -hat" returns nothing when
\* every document that holds cat also holds hat.
C2_ProhibitedExcluded ==
  ixPhase = "queried"
    => /\ \A ref \in Returned :
            \A clause \in ClausesWith("PROHIBITED") : ~HoldsTermOf(DocOf(ref), clause)
       /\ ( /\ ixClauses = << Clause(Cat, Fields, "REQUIRED"), Clause(Hat, Fields, "PROHIBITED") >>
            /\ \A i \in 1..Len(ixDocs) :
                 HoldsTermOf(ixDocs[i], ixClauses[1]) => HoldsTermOf(ixDocs[i], ixClauses[2]) )
          => ixOutcome.results = <<>>

\* A query with a PROHIBITED clause has returned a document and left out one
\* that holds the prohibited term and would match another clause.
C2_Witness ==
  /\ ixPhase = "queried"
  /\ ixOutcome.results # <<>>
  /\ \E i \in 1..Len(ixDocs) :
       /\ ixDocs[i].ref \notin Returned
       /\ \E clause \in ClausesWith("PROHIBITED") : HoldsTermOf(ixDocs[i], clause)
       /\ \E other \in ClausesWith("OPTIONAL") : HoldsTermOf(ixDocs[i], other)

\* C3: for a query of PROHIBITED clauses only, every document that holds
\* none of the prohibited terms is returned, with score 0.
C3_NegatedCoverage ==
  (ixPhase = "queried" /\ IsNegated(ixClauses))
    => \A i \in 1..Len(ixDocs) :
         (\A clause \in ClausesWith("PROHIBITED") : ~HoldsTermOf(ixDocs[i], clause))
           => \E k \in 1..Len(ixOutcome.results) :
                /\ ixOutcome.results[k].ref = ixDocs[i].ref
                /\ ixOutcome.results[k].score = 0

PositionOf(seq, ref) == CHOOSE i \in 1..Len(seq) : seq[i].ref = ref

\* C9: the results are in non-increasing score order, and results of equal
\* score are in the order in which their documents were first pushed.
C9_RankingOrder ==
  ixPhase = "queried"
    => LET results == ixOutcome.results
       IN  /\ Len(results) = Len(ixOutcome.pushed)
           /\ Range(results) = Range(ixOutcome.pushed)
           /\ \A i, j \in 1..Len(results) :
                i < j => /\ results[i].score >= results[j].score
                         /\ results[i].score = results[j].score
                              => PositionOf(ixOutcome.pushed, results[i].ref)
                                   < PositionOf(ixOutcome.pushed, results[j].ref)

\* Two results tie on a score above 0.
C9_Witness ==
  /\ ixPhase = "queried"
  /\ Len(ixOutcome.results) >= 2
  /\ ixOutcome.results[1].score = ixOutcome.results[2].score
  /\ ixOutcome.results[1].score > 0

\* C10: Index.load(index.toJSON()) returns the same results as the index,
\* the same refs in the same order with the same scores.
C10_LoadRoundTrip ==
  ixPhase = "compared"
    => /\ ixReloaded.error = ixOutcome.error
       /\ ixReloaded.results = ixOutcome.results

\* Clause i of the query is REQUIRED and its term expands to no term of the
\* vocabulary, and no clause before it is such a clause.
FirstUnmatchedRequired(i) ==
  LET Unmatched(j) == ixClauses[j].presence = "REQUIRED" /\ ExpansionOf(ixClauses[j]) = {}
  IN  Unmatched(i) /\ \A j \in 1..(i - 1) : ~Unmatched(j)

\* C22: where a term of a REQUIRED clause expands to nothing, the required
\* set of every field of the clause is empty and no later clause is examined:
\* what the query has collected is what the clauses up to that one give.
C22_StopsAtUnmatchedRequired ==
  ixPhase = "queried"
    => \A i \in 1..Len(ixClauses) :
         FirstUnmatchedRequired(i)
           => LET upTo == QueryClauses(NewQueryState(ixSource), ixNodes, ixIndex,
                                       SubSeq(ixClauses, 1, i), 1)
              IN  upTo.error = "none"
                    => /\ \A k \in 1..Len(ixClauses[i].fields) :
                            ixOutcome.collected.requiredMatches[ixClauses[i].fields[k]] = SetEmpty
                       /\ ixOutcome.error = "none"
                       /\ ixOutcome.collected = Collected(upTo)

\* The words the vocabulary TokenSet of an index accepts.
Vocabulary(idx) == Range(ToArray(ixNodes, idx.tokenSet))

\* C25: after build() and after Index.load() the vocabulary TokenSet accepts
\* exactly the keys of the inverted index, and a query finds a posting for
\* every term it expands a clause to.
C25_VocabularyIsIndexKeys ==
  /\ ixPhase \in { "built", "queried", "loaded", "compared" }
       => Vocabulary(ixIndex) = Range(TermsOf(ixIndex.invertedIndex))
  /\ ixPhase \in { "loaded", "compared" }
       => Vocabulary(ixLoaded) = Range(TermsOf(ixLoaded.invertedIndex))
  /\ ixPhase = "queried" => ixOutcome.error = "none"

\* The tokens of the documents added so far, in the order add meets them.
RECURSIVE TokensAdded(_)
TokensAdded(n) ==
  IF n = 0 THEN <<>>
  ELSE TokensAdded(n - 1) \o ixDocs[n].title \o ixDocs[n].body

\* The terms of a list of tokens, each where it is first seen.
RECURSIVE FirstSeen(_)
FirstSeen(tokens) ==
  IF tokens = <<>> THEN <<>>
  ELSE LET before == FirstSeen(SubSeq(tokens, 1, Len(tokens) - 1))
           last   == tokens[Len(tokens)]
       IN  IF Contains(before, last) THEN before ELSE Append(before, last)

-----------------------------------------------------------------------------
(* MatchData: the metadata Index.query hands out.  A metadata object is a   *)
(* list of (key, array) pairs at an address of mdHeap; arrays are values,   *)
(* since slice and concat return new arrays and nothing writes into one.    *)

HasKey(obj, key) == \E i \in 1..Len(obj) : obj[i].key = key

PutKey(obj, key, value) ==
  IF HasKey(obj, key)
  THEN [ i \in 1..Len(obj) |-> IF obj[i].key = key THEN [ key |-> key, value |-> value ]
                                ELSE obj[i] ]
  ELSE Append(obj, [ key |-> key, value |-> value ])

\* The loop over the keys of source that both add and combine run on the
\* object target: concat when target has the key, else share the array.
RECURSIVE MergeKeys(_, _, _)
MergeKeys(target, source, i) ==
  IF i > Len(source) THEN target
  ELSE LET key == source[i].key
           old == target[CHOOSE k \in 1..Len(target) : target[k].key = key].value
       IN  MergeKeys(PutKey(target, key,
                            IF HasKey(target, key) THEN old \o source[i].value
                            ELSE source[i].value),
                     source, i + 1)

\* field in matchData.metadata[term]; metadata[term][field] is an address.
InMetadata(md, term, field) ==
  \E i \in 1..Len(md) : md[i].term = term /\ md[i].field = field

MetadataAt(md, term, field) ==
  md[CHOOSE i \in 1..Len(md) : md[i].term = term /\ md[i].field = field].obj

\* new lunr.MatchData(term, field, metadata): the metadata is cloned.
NewMatchData(h, term, field, metadata) ==
  [ heap |-> Append(h, h[metadata]),
    md   |-> << [ term |-> term, field |-> field, obj |-> Len(h) + 1 ] >> ]

\* matchData.add(term, field, metadata): the object itself is stored when
\* the term or the field is new, else its keys are merged in.
MatchDataAdd(h, md, term, field, metadata) ==
  IF ~InMetadata(md, term, field)
  THEN [ heap |-> h,
         md   |-> Append(md, [ term |-> term, field |-> field, obj |-> metadata ]) ]
  ELSE [ heap |-> [ h EXCEPT ![MetadataAt(md, term, field)] = MergeKeys(@, h[metadata], 1) ],
         md   |-> md ]

\* this.combine(otherMatchData), entry by entry of otherMatchData.
RECURSIVE Combine(_, _, _, _)
Combine(h, this, other, i) ==
  IF i > Len(other) THEN [ heap |-> h, md |-> this ]
  ELSE LET e     == other[i]
           fresh == ~InMetadata(this, e.term, e.field)
           h1    == IF fresh THEN Append(h, <<>>) ELSE h
           this1 == IF fresh
                    THEN Append(this, [ term |-> e.term, field |-> e.field, obj |-> Len(h) + 1 ])
                    ELSE this
       IN  Combine([ h1 EXCEPT ![MetadataAt(this1, e.term, e.field)] =
                                  MergeKeys(@, h1[e.obj], 1) ],
                   this1, other, i + 1)

\* The metadata objects of the inverted index, with the "position" key of
\* the metadata whitelist: document a holds cat hat in its title and cat in
\* its body, document b holds hat in its title and cat cat in its body.
IndexMetadata ==
  << << [ key |-> "position", value |-> << 0 >> ] >>,
     << [ key |-> "position", value |-> << 1 >> ] >>,
     << [ key |-> "position", value |-> << 0 >> ] >>,
     << [ key |-> "position", value |-> << 0 >> ] >>,
     << [ key |-> "position", value |-> << 0, 1 >> ] >> >>

\* invertedIndex[term][field][doc], as addresses of IndexMetadata.
Postings ==
  << [ term |-> "cat", field |-> "title", doc |-> "a", obj |-> 1 ],
     [ term |-> "hat", field |-> "title", doc |-> "a", obj |-> 2 ],
     [ term |-> "cat", field |-> "body",  doc |-> "a", obj |-> 3 ],
     [ term |-> "hat", field |-> "title", doc |-> "b", obj |-> 4 ],
     [ term |-> "cat", field |-> "body",  doc |-> "b", obj |-> 5 ] >>

\* The body of the loop over matchingDocumentRefs.
MatchDocument(st, term, field, hit) ==
  LET mf == st.matchingFields
  IN  IF \E i \in 1..Len(mf) : mf[i].field = field /\ mf[i].doc = hit.doc
      THEN LET i == CHOOSE k \in 1..Len(mf) : mf[k].field = field /\ mf[k].doc = hit.doc
               r == MatchDataAdd(st.heap, mf[i].md, term, field, hit.obj)
           IN  [ st EXCEPT !.heap = r.heap, !.matchingFields[i].md = r.md ]
      ELSE LET n == NewMatchData(st.heap, term, field, hit.obj)
           IN  [ st EXCEPT !.heap = n.heap,
                           !.matchingFields =
                              Append(@, [ field |-> field, doc |-> hit.doc, md |-> n.md ]) ]

RECURSIVE MatchDocuments(_, _, _, _, _)
MatchDocuments(st, term, field, hits, l) ==
  IF l > Len(hits) THEN st
  ELSE MatchDocuments(MatchDocument(st, term, field, hits[l]), term, field, hits, l + 1)

\* MatchTermField without the termFieldCache.
MatchTermFieldUncached(st, term, field) ==
  LET Hit(p) == p.term = term /\ p.field = field
  IN  MatchDocuments(st, term, field, SelectSeq(Postings, Hit), 1)

\* What the loop over clause.fields does with the match data for one
\* expanded term: nothing when termFieldCache holds the pair.
MatchTermField(st, term, field) ==
  LET Hit(p) == p.term = term /\ p.field = field
  IN  IF << term, field >> \in st.termFieldCache THEN st
      ELSE [ MatchDocuments(st, term, field, SelectSeq(Postings, Hit), 1)
               EXCEPT !.termFieldCache = @ \cup { << term, field >> } ]

\* The (term, field) pairs of a query in the order of its loops over the
\* clauses, the expanded terms of a clause and the fields of a clause.
RECURSIVE TermFields(_, _)
TermFields(query, i) ==
  IF i > Len(query) THEN <<>>
  ELSE LET c == query[i]
       IN  [ n \in 1..(Len(c.terms) * Len(c.fields)) |->
               << c.terms[((n - 1) \div Len(c.fields)) + 1],
                  c.fields[((n - 1) % Len(c.fields)) + 1] >> ]
             \o TermFields(query, i + 1)

RECURSIVE MatchAll(_, _, _)
MatchAll(st, pairs, i) ==
  IF i > Len(pairs) THEN st
  ELSE MatchAll(MatchTermField(st, pairs[i][1], pairs[i][2]), pairs, i + 1)

\* The loop over matchingFieldRefs: the first field ref of a document gives
\* the result its MatchData, the later ones are combined into it.
RECURSIVE CombineFields(_, _, _)
CombineFields(st, i, matches) ==
  IF i > Len(st.matchingFields) THEN [ heap |-> st.heap, matchingFields |-> st.matchingFields,
                                       matches |-> matches ]
  ELSE LET fr == st.matchingFields[i]
       IN  IF \E k \in 1..Len(matches) : matches[k].ref = fr.doc
           THEN LET at == matches[CHOOSE k \in 1..Len(matches) : matches[k].ref = fr.doc].at
                    c  == Combine(st.heap, st.matchingFields[at].md, fr.md, 1)
                IN  CombineFields([ st EXCEPT !.heap = c.heap, !.matchingFields[at].md = c.md ],
                                  i + 1, matches)
           ELSE CombineFields(st, i + 1, Append(matches, [ ref |-> fr.doc, at |-> i ]))

\* The match data of the results of index.query for the clauses of query,
\* by value, and the heap the call leaves.
QueryMatchData(h, query) ==
  LET st == MatchAll([ heap |-> h, matchingFields |-> <<>>, termFieldCache |-> {} ],
                     TermFields(query, 1), 1)
      r  == CombineFields(st, 1, <<>>)
  IN  [ heap    |-> r.heap,
        results |-> [ k \in 1..Len(r.matches) |->
                        [ ref      |-> r.matches[k].ref,
                          metadata |-> { << e.term, e.field, r.heap[e.obj] >> :
                                           e \in Range(r.matchingFields[r.matches[k].at].md) } ] ] ]

MatchClauses ==
  { [ terms |-> t, fields |-> f ] :
      t \in { << "cat" >>, << "hat" >>, << "cat", "hat" >> },
      f \in { << "title" >>, << "body" >>, << "title", "body" >> } }

MatchQueries == { << c >> : c \in MatchClauses } \cup { << c, d >> : c \in MatchClauses, d \in MatchClauses }

MDInit ==
  /\ TSIdle
  /\ NMIdle
  /\ IdxIdle
  /\ QPIdle
  /\ STIdle
  /\ VCIdle
  /\ PLIdle
  /\ mdHeap = IndexMetadata
  /\ mdPhase = "built"
  /\ mdQuery = <<>>
  /\ mdResult = <<>>
  /\ mdLast = <<>>
  /\ mdAgain = <<>>
  /\ mdInstances = <<>>
  /\ mdCalls = <<>>

mdOthers == << tsVars, nmVars, idxVars, qpVars, stVars, vcVars, plVars >>

\* index.query(...), the first call
FirstQuery ==
  /\ mdPhase = "built"
  /\ \E query \in MatchQueries :
       LET r == QueryMatchData(mdHeap, query)
       IN  /\ mdQuery' = query
           /\ mdHeap' = r.heap
           /\ mdResult' = r.results
  /\ mdPhase' = "queried"
  /\ UNCHANGED << mdLast, mdAgain, mdInstances, mdCalls, mdOthers >>

\* index.query(...) with any clauses, after the first call
OtherQuery ==
  /\ mdPhase = "queried"
  /\ \E query \in MatchQueries :
       LET r == QueryMatchData(mdHeap, query)
       IN  /\ mdHeap' = r.heap
           /\ mdLast' = [ error |-> "none", results |-> r.results ]
  /\ mdPhase' = "between"
  /\ UNCHANGED << mdQuery, mdResult, mdAgain, mdInstances, mdCalls, mdOthers >>

\* index.search(queryString) where parser.parse() throws: the loops of
\* Index.query are never entered.
FailedSearch ==
  /\ mdPhase = "queried"
  /\ mdLast' = [ error |-> "QueryParseError", results |-> <<>> ]
  /\ mdPhase' = "between"
  /\ UNCHANGED << mdHeap, mdQuery, mdResult, mdAgain, mdInstances, mdCalls, mdOthers >>

\* index.query(...) with the clauses of the first call again
RepeatQuery ==
  /\ mdPhase = "between"
  /\ LET r == QueryMatchData(mdHeap, mdQuery)
     IN  /\ mdHeap' = r.heap
         /\ mdAgain' = r.results
  /\ mdPhase' = "repeated"
  /\ UNCHANGED << mdQuery, mdResult, mdLast, mdInstances, mdCalls, mdOthers >>

MDNext == FirstQuery \/ OtherQuery \/ FailedSearch \/ RepeatQuery

SpecMatchData == MDInit /\ [][MDNext]_vars

\* C11: no sequence of query and search calls, failed ones included, changes
\* the metadata objects of the inverted index, and a query that is repeated
\* returns what it returned before.
C11_IndexUnchanged ==
  /\ mdPhase # "idle" => SubSeq(mdHeap, 1, Len(IndexMetadata)) = IndexMetadata
  /\ mdPhase = "repeated" => mdAgain = mdResult

\* A query that both added to and combined match data was repeated after a
\* search that failed.
C11_Witness ==
  /\ mdPhase = "repeated"
  /\ mdQuery = << [ terms |-> << "cat", "hat" >>, fields |-> << "title", "body" >> ] >>
  /\ mdLast.error = "QueryParseError"
  /\ Len(mdAgain) = 2

-----------------------------------------------------------------------------
(* QueryLexer *)

\* Op applied to the value of its argument: a call takes its arguments by
\* value, so the argument is worked out once, before the body.
With(value, Op(_)) == CHOOSE result \in { Op(v) : v \in { value } } : TRUE

\* new lunr.QueryLexer(str): positions are offsets into str, from 0.
NewLexer(str) ==
  [ str |-> str, pos |-> 0, start |-> 0, lexemes |-> <<>>, escapeCharPositions |-> <<>> ]

\* A state function that returns itself and leaves the lexer as it was.
LexerStateReturningItself(c) == c

\* The state function c.state called on the lexer c.lexer: the lexer
\* afterwards and the state function it returns ("done" for none).
LexerState(c) ==
  LET
    \* String.prototype.slice(from, to) for 0 <= from: the end is clamped to
    \* the length and an empty range gives the empty string.
    Slice(s, from, to) ==
      LET end == IF to > Len(s) THEN Len(s) ELSE to
      IN IF from >= end THEN <<>> ELSE SubSeq(s, from + 1, end)

    \* QueryLexer.sliceString()
    RECURSIVE SliceString(_, _, _)
    SliceString(lexer, i, sliceStart) ==
      IF i > Len(lexer.escapeCharPositions)
      THEN Slice(lexer.str, sliceStart, lexer.pos)
      ELSE LET sliceEnd == lexer.escapeCharPositions[i]
           IN Slice(lexer.str, sliceStart, sliceEnd) \o SliceString(lexer, i + 1, sliceEnd + 1)

    \* QueryLexer.emit(type)
    Emit(this, type) ==
      With(this, LAMBDA lexer :
        [ lexer EXCEPT
            !.lexemes = Append(@, [ type  |-> type,
                                    str   |-> SliceString(lexer, 1, lexer.start),
                                    start |-> lexer.start,
                                    end   |-> lexer.pos ]),
            !.escapeCharPositions = <<>>,
            !.start = lexer.pos ])

    \* QueryLexer.escapeCharacter()
    EscapeCharacter(this) ==
      With(this, LAMBDA lexer :
        [ lexer EXCEPT !.escapeCharPositions = Append(@, lexer.pos - 1), !.pos = @ + 1 ])

    \* QueryLexer.peek(); it is also the character QueryLexer.next() returns.
    Peek(this) ==
      With(this, LAMBDA lexer :
        IF lexer.pos >= Len(lexer.str) THEN "EOS" ELSE lexer.str[lexer.pos + 1])

    \* The lexer after QueryLexer.next()
    Advance(this) ==
      With(this, LAMBDA lexer :
        IF lexer.pos >= Len(lexer.str) THEN lexer ELSE [ lexer EXCEPT !.pos = @ + 1 ])

    Width(this) == With(this, LAMBDA lexer : lexer.pos - lexer.start)

    \* QueryLexer.ignore()
    Ignore(this) ==
      With(this, LAMBDA lexer :
        LET skipped == IF lexer.start = lexer.pos THEN lexer.pos + 1 ELSE lexer.pos
        IN [ lexer EXCEPT !.pos = skipped, !.start = skipped ])

    \* QueryLexer.backup()
    Backup(lexer) == [ lexer EXCEPT !.pos = @ - 1 ]

    \* QueryLexer.acceptDigitRun()
    RECURSIVE AcceptDigitRun(_)
    AcceptDigitRun(this) ==
      With(this, LAMBDA lexer :
        LET char == Peek(lexer)
            next == Advance(lexer)
        IN IF IsDigit(char) THEN AcceptDigitRun(next)
           ELSE IF char # "EOS" THEN Backup(next)
           ELSE next)

    \* char.match(QueryLexer.termSeparator), the tokenizer's /[\s-]+/
    IsSeparator(char) == char \in { " ", "-" }

    EmitIfWide(this, type) ==
      With(this, LAMBDA lexer : IF Width(lexer) > 0 THEN Emit(lexer, type) ELSE lexer)

    \* lexField: the lexer afterwards and the state it returns.
    LexField(lexer) ==
      LET field == Ignore(Emit(Backup(lexer), "FIELD"))
          char == Peek(field)
          operator == Advance(field)
          comparator == Emit(IF Peek(operator) = "=" THEN Advance(operator) ELSE operator,
                             "COMPARATOR")
          integer == AcceptDigitRun(comparator)
          fraction == AcceptDigitRun(IF Peek(integer) = "." THEN Advance(integer) ELSE integer)
      IN [ lexer |-> IF char \in { ">", "<" } /\ Width(field) = 0
                     THEN Emit(fraction, "COMPARAND")
                     ELSE field,
           state |-> "lexText" ]

    \* The loop of lexRange
    RECURSIVE LexRangeLoop(_)
    LexRangeLoop(this) ==
      With(this, LAMBDA lexer :
        LET char == Peek(lexer)
            next == Advance(lexer)
        IN IF char = "EOS"
           THEN [ lexer |-> EmitIfWide(next, "RANGE_END"), state |-> "done" ]
           ELSE IF \/ char \in { ":", "~", "^", "+", "-" }
                   \/ char = "." /\ Peek(next) = "."
                   \/ IsSeparator(char)
           THEN [ lexer |-> EmitIfWide(Backup(next), "RANGE_END"), state |-> "lexText" ]
           ELSE IF char = "\\"
           THEN LexRangeLoop(EscapeCharacter(next))
           ELSE LexRangeLoop(next))

    \* lexRange
    LexRange(lexer) ==
      LexRangeLoop(Ignore(Ignore(EmitIfWide(Backup(lexer), "RANGE_START"))))

    \* lexTerm
    LexTerm(lexer) ==
      LET term == IF Width(lexer) > 1 THEN Emit(Backup(lexer), "TERM") ELSE lexer
          rest == Ignore(term)
      IN [ lexer |-> rest,
           state |-> IF rest.pos < Len(rest.str) THEN "lexText" ELSE "done" ]

    \* lexEditDistance
    LexEditDistance(lexer) ==
      [ lexer |-> Emit(AcceptDigitRun(Ignore(lexer)), "EDIT_DISTANCE"), state |-> "lexText" ]

    \* lexBoost
    LexBoost(lexer) ==
      [ lexer |-> Emit(AcceptDigitRun(Ignore(lexer)), "BOOST"), state |-> "lexText" ]

    \* lexEOS
    LexEOS(lexer) ==
      [ lexer |-> EmitIfWide(lexer, "TERM"), state |-> "done" ]

    \* lexText
    RECURSIVE LexText(_)
    LexText(this) ==
      With(this, LAMBDA lexer :
        LET char == Peek(lexer)
            next == Advance(lexer)
        IN IF char = "EOS" THEN [ lexer |-> next, state |-> "lexEOS" ]
           ELSE IF char = "\\" THEN LexText(EscapeCharacter(next))
           ELSE IF char = ":" THEN [ lexer |-> next, state |-> "lexField" ]
           ELSE IF char = "~"
           THEN [ lexer |-> EmitIfWide(Backup(next), "TERM"), state |-> "lexEditDistance" ]
           ELSE IF char = "^"
           THEN [ lexer |-> EmitIfWide(Backup(next), "TERM"), state |-> "lexBoost" ]
           ELSE IF char = "." /\ Peek(next) = "." THEN [ lexer |-> next, state |-> "lexRange" ]
           ELSE IF char \in { "+", "-" } /\ Width(next) = 1
           THEN [ lexer |-> Emit(next, "PRESENCE"), state |-> "lexText" ]
           ELSE IF IsSeparator(char) THEN [ lexer |-> next, state |-> "lexTerm" ]
           ELSE LexText(next))

  IN CASE c.state = "lexText"         -> LexText(c.lexer)
       [] c.state = "lexField"        -> LexField(c.lexer)
       [] c.state = "lexRange"        -> LexRange(c.lexer)
       [] c.state = "lexTerm"         -> LexTerm(c.lexer)
       [] c.state = "lexEditDistance" -> LexEditDistance(c.lexer)
       [] c.state = "lexBoost"        -> LexBoost(c.lexer)
       [] c.state = "lexEOS"          -> LexEOS(c.lexer)

\* QueryLexer.run(), and the lexemes it leaves: call the state functions,
\* from lexText on, until one returns nothing.
LexerRun(str) ==
  LET RECURSIVE LexerLoop(_)
      LexerLoop(c) == IF c.state = "done" THEN c.lexer ELSE LexerLoop(LexerState(c))
  IN LexerLoop([ lexer |-> NewLexer(str), state |-> "lexText" ]).lexemes

-----------------------------------------------------------------------------
(* QueryParser and Query.clause *)

\* The fields of the index whose search string is parsed, and their types.
AllFields == << << "t" >>, << "n" >> >>

AllFieldTypes == << "string", "number" >>

\* lunr.utils.parseNumber(str).  The strings of the model hold none of the
\* letters e, b, o, x, so decimalPattern has no exponent and integerPattern
\* never matches.  A number is its sign and its value in hundredths.
ParseNumber(str) ==
  LET \* String.prototype.trim()
      RECURSIVE Trim(_)
      Trim(s) ==
        IF s = <<>> THEN s
        ELSE IF s[1] = " " THEN Trim(Tail(s))
        ELSE IF s[Len(s)] = " " THEN Trim(SubSeq(s, 1, Len(s) - 1))
        ELSE s
      trimmed == Trim(str)
      signed  == trimmed # <<>> /\ trimmed[1] \in { "+", "-" }
      body    == IF signed THEN Tail(trimmed) ELSE trimmed
      dots    == { i \in 1..Len(body) : body[i] = "." }
      dot     == IF dots = {} THEN Len(body) + 1
                 ELSE CHOOSE i \in dots : \A j \in dots : i <= j
      int     == SubSeq(body, 1, dot - 1)
      frac    == SubSeq(body, dot + 1, Len(body))
      digits(s) == \A i \in 1..Len(s) : IsDigit(s[i])
      decimalPattern ==
        /\ digits(int) /\ digits(frac)
        /\ \/ int # <<>> /\ (int = << "0" >> \/ int[1] # "0")
           \/ int = <<>> /\ dots # {} /\ frac # <<>>
      hundredths ==
        ParseDigits(int, 1, 0) * 100
          + ParseDigits(SubSeq(frac \o << "0", "0" >>, 1, 2), 1, 0)
  IN IF decimalPattern
     THEN [ isNaN |-> FALSE,
            sign |-> IF signed /\ trimmed[1] = "-" THEN -1 ELSE 1,
            hundredths |-> hundredths ]
     ELSE [ isNaN |-> TRUE ]

\* The clause {} a parser starts from; keys holds the properties set so far.
EmptyClause ==
  [ keys |-> {}, presence |-> "", fields |-> <<>>, fieldTypes |-> <<>>,
    term |-> [ kind |-> "undefined" ], usePipeline |-> TRUE, editDistance |-> 0,
    boost |-> 0, wildcard |-> 0 ]

SetKey(clause, key, value) ==
  [ clause EXCEPT ![key] = value, !.keys = @ \cup { key } ]

\* new lunr.QueryParser(str, query) once lexer.run() has filled the lexemes
NewParser(str) ==
  [ lexemes |-> LexerRun(str), lexemeIdx |-> 0, currentClause |-> EmptyClause,
    currentRange |-> <<>>, currentComparator |-> <<>>, clauses |-> <<>> ]

\* QueryParser.peekLexeme(): undefined once the lexemes are used up.
HasLexeme(parser) == parser.lexemeIdx < Len(parser.lexemes)

PeekLexeme(parser) == parser.lexemes[parser.lexemeIdx + 1]

\* QueryParser.consumeLexeme()
ConsumeLexeme(parser) == [ parser EXCEPT !.lexemeIdx = @ + 1 ]

\* Query.clause(clause): fill in what the clause leaves out and push it.
\* numberMap, a reference to the index's NumberMap, is left out.
QueryPush(clauses, clause) ==
  LET numeric == { i \in 1..Len(AllFields) : AllFieldTypes[i] = "number" }
      numberFields == SelectSeq(AllFields, LAMBDA f : \E i \in numeric : AllFields[i] = f)
      withFields ==
        IF "fields" \in clause.keys THEN clause
        ELSE IF clause.term.kind \in { "range", "comparator" }
        THEN SetKey(SetKey(clause, "fields", numberFields),
                    "fieldTypes", [ i \in 1..Len(numberFields) |-> "number" ])
        ELSE SetKey(SetKey(clause, "fields", AllFields), "fieldTypes", AllFieldTypes)
      withBoost == IF "boost" \in clause.keys THEN withFields
                   ELSE SetKey(withFields, "boost", 1)
      withPipeline == IF "usePipeline" \in clause.keys THEN withBoost
                      ELSE SetKey(withBoost, "usePipeline", TRUE)
      withWildcard == SetKey(withPipeline, "wildcard", 0)
      withPresence == IF "presence" \in clause.keys THEN withWildcard
                      ELSE SetKey(withWildcard, "presence", "OPTIONAL")
  IN Append(clauses, withPresence)

\* QueryParser.nextClause()
NextClause(parser) ==
  [ parser EXCEPT !.clauses = QueryPush(@, parser.currentClause),
                  !.currentClause = EmptyClause,
                  !.currentComparator = <<>>,
                  !.currentRange = <<>> ]

\* The parser goes on to the state function `state`, or returns ("done").
Goto(parser, state) ==
  /\ qpParser' = parser
  /\ qpState' = state
  /\ UNCHANGED qpError

\* throw new lunr.QueryParseError (message, lexeme.start, lexeme.end)
Throw(parser, message, lexeme) ==
  /\ qpParser' = parser
  /\ qpState' = "failed"
  /\ qpError' = [ name |-> "QueryParseError", message |-> message,
                  start |-> lexeme.start, end |-> lexeme.end ]

\* The textual clauses query strings are written from, after the grammar
\*   clause := [presence] (field ":")? (term modifiers? | range | cmp)
\* each with the presence, field and kind of term it spells.
TextClause(text, presence, field, kind) ==
  [ text |-> text, presence |-> presence, field |-> field, kind |-> kind ]

TextClauses ==
  { TextClause(<< "a" >>, "OPTIONAL", <<>>, "string"),
    TextClause(<< "+", "A" >>, "REQUIRED", <<>>, "string"),
    TextClause(<< "-", "t", ":", "a" >>, "PROHIBITED", << "t" >>, "string"),
    TextClause(<< "a", "~", "1" >>, "OPTIONAL", <<>>, "string"),
    TextClause(<< "a", "^", "2" >>, "OPTIONAL", <<>>, "string"),
    TextClause(<< "n", ":", "1", ".", ".", "2" >>, "OPTIONAL", << "n" >>, "range"),
    TextClause(<< "n", ":", "<", "=", "2" >>, "OPTIONAL", << "n" >>, "comparator") }

\* The characters of the query strings that follow no grammar.
QueryAlphabet ==
  { "a", "n", "1", " ", "+", "-", ":", ".", "\\", "~", "^", "<", "=", "*" }

MaxClauses == 3
MaxQueryLen == 3

\* The textual clauses joined by single spaces.
RECURSIVE JoinClauses(_)
JoinClauses(parts) ==
  IF parts = <<>> THEN <<>>
  ELSE IF Len(parts) = 1 THEN parts[1].text
  ELSE parts[1].text \o << " " >> \o JoinClauses(Tail(parts))

qpOthers == << tsVars, nmVars, idxVars, mdVars, stVars, vcVars, plVars >>

QPInit ==
  /\ TSIdle
  /\ NMIdle
  /\ IdxIdle
  /\ MDIdle
  /\ STIdle
  /\ VCIdle
  /\ PLIdle
  /\ \/ /\ qpParts \in UNION { [ 1..n -> TextClauses ] : n \in 1..MaxClauses }
        /\ qpStr = JoinClauses(qpParts)
     \/ /\ qpParts = <<>>
        /\ qpStr \in StringsUpTo(QueryAlphabet, MaxQueryLen)
  /\ qpParser = <<>>
  /\ qpState = "search"
  /\ qpError = <<>>
  /\ qpLexer = <<>>

\* index.search(queryString): new lunr.QueryParser, then parse() up to its
\* first state function.
SearchCall ==
  /\ qpState = "search"
  /\ Goto(NewParser(qpStr), "parseClause")
  /\ UNCHANGED << qpParts, qpStr, qpLexer >>
  /\ UNCHANGED qpOthers

\* parseClause
ParseClause ==
  /\ qpState = "parseClause"
  /\ IF ~HasLexeme(qpParser) THEN Goto(qpParser, "done")
     ELSE LET lexeme == PeekLexeme(qpParser)
          IN CASE lexeme.type = "PRESENCE" -> Goto(qpParser, "parsePresence")
               [] lexeme.type = "FIELD"    -> Goto(qpParser, "parseField")
               [] lexeme.type = "TERM"     -> Goto(qpParser, "parseTerm")
               [] OTHER -> Throw(qpParser, "expected either a field or a term", lexeme)
  /\ UNCHANGED << qpParts, qpStr, qpLexer >>
  /\ UNCHANGED qpOthers

\* parsePresence, with the next lexeme accepted whatever its type
ParsePresenceAnyNext ==
  /\ qpState = "parsePresence"
  /\ LET lexeme == PeekLexeme(qpParser)
         parser == [ ConsumeLexeme(qpParser) EXCEPT
                       !.currentClause =
                         SetKey(@, "presence",
                                IF lexeme.str = << "-" >> THEN "PROHIBITED" ELSE "REQUIRED") ]
     IN Goto(parser, IF HasLexeme(parser) /\ PeekLexeme(parser).type = "FIELD"
                     THEN "parseField" ELSE "parseTerm")
  /\ UNCHANGED << qpParts, qpStr, qpLexer >>
  /\ UNCHANGED qpOthers

\* parsePresence
ParsePresence ==
  /\ qpState = "parsePresence"
  /\ IF ~HasLexeme(qpParser) THEN Goto(qpParser, "done")
     ELSE LET lexeme == PeekLexeme(qpParser)
              consumed == ConsumeLexeme(qpParser)
              parser == [ consumed EXCEPT
                            !.currentClause =
                              SetKey(@, "presence",
                                     IF lexeme.str = << "-" >> THEN "PROHIBITED"
                                     ELSE "REQUIRED") ]
          IN IF lexeme.str \notin { << "-" >>, << "+" >> }
             THEN Throw(consumed, "unrecognised presence operator", lexeme)
             ELSE IF ~HasLexeme(parser)
             THEN Throw(parser, "expecting term or field, found nothing", lexeme)
             ELSE CASE PeekLexeme(parser).type = "FIELD" -> Goto(parser, "parseField")
                    [] PeekLexeme(parser).type = "TERM"  -> Goto(parser, "parseTerm")
                    [] OTHER -> Throw(parser, "expecting term or field", PeekLexeme(parser))
  /\ UNCHANGED << qpParts, qpStr, qpLexer >>
  /\ UNCHANGED qpOthers

\* parseField
ParseField ==
  /\ qpState = "parseField"
  /\ IF ~HasLexeme(qpParser) THEN Goto(qpParser, "done")
     ELSE LET lexeme == PeekLexeme(qpParser)
              consumed == ConsumeLexeme(qpParser)
              known == { i \in 1..Len(AllFields) : AllFields[i] = lexeme.str }
              fieldIndex == CHOOSE i \in known : \A j \in known : i <= j
              parser == [ consumed EXCEPT
                            !.currentClause =
                              SetKey(SetKey(@, "fields", << lexeme.str >>),
                                     "fieldTypes", << AllFieldTypes[fieldIndex] >>) ]
          IN IF known = {}
             THEN Throw(consumed, "unrecognised field", lexeme)
             ELSE IF ~HasLexeme(parser)
             THEN Throw(parser, "expecting term or operator, found nothing", lexeme)
             ELSE CASE PeekLexeme(parser).type = "TERM" -> Goto(parser, "parseTerm")
                    [] PeekLexeme(parser).type = "RANGE_START" ->
                         Goto(parser, "parseRangeStart")
                    [] PeekLexeme(parser).type = "COMPARATOR" ->
                         Goto(parser, "parseComparator")
                    [] OTHER -> Throw(parser, "expecting term", PeekLexeme(parser))
  /\ UNCHANGED << qpParts, qpStr, qpLexer >>
  /\ UNCHANGED qpOthers

\* parseRangeStart
ParseRangeStart ==
  /\ qpState = "parseRangeStart"
  /\ IF ~HasLexeme(qpParser) THEN Goto(qpParser, "done")
     ELSE LET lexeme == PeekLexeme(qpParser)
              consumed == ConsumeLexeme(qpParser)
              clause == consumed.currentClause
              start == IF lexeme.str = << "*" >> THEN [ star |-> TRUE, isNaN |-> FALSE ]
                       ELSE ParseNumber(lexeme.str)
              ranged == [ consumed EXCEPT !.currentRange = [ start |-> start ] ]
              parser == [ ranged EXCEPT
                            !.currentClause = SetKey(@, "usePipeline", FALSE) ]
          IN IF \/ "fieldTypes" \notin clause.keys
                \/ \E i \in 1..Len(clause.fieldTypes) : clause.fieldTypes[i] # "number"
             THEN Throw(consumed, "ranges are only supported on fields of type 'number'",
                        lexeme)
             ELSE IF start.isNaN
             THEN Throw(ranged, "range start must be numeric or '*'", lexeme)
             ELSE IF ~HasLexeme(parser)
             THEN Throw(parser, "expecting range end, found nothing", lexeme)
             ELSE IF PeekLexeme(parser).type = "RANGE_END"
             THEN Goto(parser, "parseRangeEnd")
             ELSE Throw(parser, "expecting range end", PeekLexeme(parser))
  /\ UNCHANGED << qpParts, qpStr, qpLexer >>
  /\ UNCHANGED qpOthers

\* parseRangeEnd
ParseRangeEnd ==
  /\ qpState = "parseRangeEnd"
  /\ IF ~HasLexeme(qpParser) THEN Goto(qpParser, "done")
     ELSE LET lexeme == PeekLexeme(qpParser)
              consumed == ConsumeLexeme(qpParser)
              end == IF lexeme.str = << "*" >> THEN [ star |-> TRUE, isNaN |-> FALSE ]
                     ELSE ParseNumber(lexeme.str)
              ranged == [ consumed EXCEPT !.currentRange = [ start |-> @.start, end |-> end ] ]
              parser == [ ranged EXCEPT
                            !.currentClause =
                              SetKey(@, "term", [ kind  |-> "range",
                                                  start |-> ranged.currentRange.start,
                                                  end   |-> end ]),
                            !.currentRange = <<>> ]
          IN IF end.isNaN
             THEN Throw(ranged, "range end must be numeric or '*'", lexeme)
             ELSE IF ~HasLexeme(parser) THEN Goto(NextClause(parser), "done")
             ELSE IF PeekLexeme(parser).type = "TERM" THEN Goto(parser, "parseTerm")
             ELSE Throw(parser, "expecting term", PeekLexeme(parser))
  /\ UNCHANGED << qpParts, qpStr, qpLexer >>
  /\ UNCHANGED qpOthers

\* parseComparator
ParseComparator ==
  /\ qpState = "parseComparator"
  /\ IF ~HasLexeme(qpParser) THEN Goto(qpParser, "done")
     ELSE LET lexeme == PeekLexeme(qpParser)
              consumed == ConsumeLexeme(qpParser)
              clause == consumed.currentClause
              known == lexeme.str \in { << "<" >>, << "<", "=" >>, << ">" >>, << ">", "=" >> }
              parser == [ consumed EXCEPT
                            !.currentComparator =
                              IF known THEN [ comparator |-> lexeme.str ] ELSE [ none |-> TRUE ],
                            !.currentClause = SetKey(@, "usePipeline", FALSE) ]
          IN IF \/ "fieldTypes" \notin clause.keys
                \/ \E i \in 1..Len(clause.fieldTypes) : clause.fieldTypes[i] # "number"
             THEN Throw(consumed,
                        "comparators are only supported on fields of type 'number'", lexeme)
             ELSE IF ~HasLexeme(parser)
             THEN Throw(parser, "expecting term, found nothing", lexeme)
             ELSE IF PeekLexeme(parser).type = "COMPARAND"
             THEN Goto(parser, "parseComparand")
             ELSE Throw(parser, "expecting comparand", PeekLexeme(parser))
  /\ UNCHANGED << qpParts, qpStr, qpLexer >>
  /\ UNCHANGED qpOthers

\* parseComparand
ParseComparand ==
  /\ qpState = "parseComparand"
  /\ IF ~HasLexeme(qpParser) THEN Goto(qpParser, "done")
     ELSE LET lexeme == PeekLexeme(qpParser)
              consumed == ConsumeLexeme(qpParser)
              comparand == ParseNumber(lexeme.str)
              compared == [ consumed EXCEPT
                              !.currentComparator =
                                [ comparator |-> @.comparator, comparand |-> comparand ] ]
              parser == [ compared EXCEPT
                            !.currentClause =
                              SetKey(@, "term",
                                     [ kind       |-> "comparator",
                                       comparator |-> compared.currentComparator.comparator,
                                       comparand  |-> comparand ]),
                            !.currentComparator = <<>> ]
          IN IF comparand.isNaN
             THEN Throw(compared, "comparand must be numeric", lexeme)
             ELSE IF ~HasLexeme(parser) THEN Goto(NextClause(parser), "done")
             ELSE IF PeekLexeme(parser).type = "TERM" THEN Goto(parser, "parseTerm")
             ELSE Throw(parser, "expecting term", PeekLexeme(parser))
  /\ UNCHANGED << qpParts, qpStr, qpLexer >>
  /\ UNCHANGED qpOthers

\* What parseTerm, parseEditDistance and parseBoost do with the next lexeme.
AfterTerm(parser) ==
  IF ~HasLexeme(parser) THEN Goto(NextClause(parser), "done")
  ELSE CASE PeekLexeme(parser).type = "TERM" -> Goto(NextClause(parser), "parseTerm")
         [] PeekLexeme(parser).type = "FIELD" -> Goto(NextClause(parser), "parseField")
         [] PeekLexeme(parser).type = "EDIT_DISTANCE" -> Goto(parser, "parseEditDistance")
         [] PeekLexeme(parser).type = "BOOST" -> Goto(parser, "parseBoost")
         [] PeekLexeme(parser).type = "PRESENCE" -> Goto(NextClause(parser), "parsePresence")
         [] OTHER -> Throw(parser, "Unexpected lexeme type", PeekLexeme(parser))

\* parseTerm
ParseTerm ==
  /\ qpState = "parseTerm"
  /\ IF ~HasLexeme(qpParser) THEN Goto(qpParser, "done")
     ELSE LET lexeme == PeekLexeme(qpParser)
              \* String.prototype.toLowerCase()
              ToLowerCase(s) == [ i \in 1..Len(s) |-> IF s[i] = "A" THEN "a" ELSE s[i] ]
              termed == [ ConsumeLexeme(qpParser) EXCEPT
                            !.currentClause =
                              SetKey(@, "term", [ kind |-> "string",
                                                  str  |-> ToLowerCase(lexeme.str) ]) ]
              parser == IF \E i \in 1..Len(lexeme.str) : lexeme.str[i] = "*"
                        THEN [ termed EXCEPT
                                 !.currentClause = SetKey(@, "usePipeline", FALSE) ]
                        ELSE termed
          IN AfterTerm(parser)
  /\ UNCHANGED << qpParts, qpStr, qpLexer >>
  /\ UNCHANGED qpOthers

\* parseEditDistance
ParseEditDistance ==
  /\ qpState = "parseEditDistance"
  /\ IF ~HasLexeme(qpParser) THEN Goto(qpParser, "done")
     ELSE LET lexeme == PeekLexeme(qpParser)
              consumed == ConsumeLexeme(qpParser)
              \* parseInt(lexeme.str, 10): the value of the leading digits, or NaN
              editDistance == ParseFloat(lexeme.str)
          IN IF editDistance = NaN
             THEN Throw(consumed, "edit distance must be numeric", lexeme)
             ELSE AfterTerm([ consumed EXCEPT
                                !.currentClause = SetKey(@, "editDistance", editDistance) ])
  /\ UNCHANGED << qpParts, qpStr, qpLexer >>
  /\ UNCHANGED qpOthers

\* parseBoost
ParseBoost ==
  /\ qpState = "parseBoost"
  /\ IF ~HasLexeme(qpParser) THEN Goto(qpParser, "done")
     ELSE LET lexeme == PeekLexeme(qpParser)
              consumed == ConsumeLexeme(qpParser)
              \* parseInt(lexeme.str, 10): the value of the leading digits, or NaN
              boost == ParseFloat(lexeme.str)
          IN IF boost = NaN
             THEN Throw(consumed, "boost must be numeric", lexeme)
             ELSE AfterTerm([ consumed EXCEPT
                                !.currentClause = SetKey(@, "boost", boost) ])
  /\ UNCHANGED << qpParts, qpStr, qpLexer >>
  /\ UNCHANGED qpOthers

QPNext ==
  \/ SearchCall
  \/ ParseClause
  \/ ParsePresence
  \/ ParseField
  \/ ParseRangeStart
  \/ ParseRangeEnd
  \/ ParseComparator
  \/ ParseComparand
  \/ ParseTerm
  \/ ParseEditDistance
  \/ ParseBoost

SpecQueryParser == QPInit /\ [][QPNext]_vars

\* The clause the parser committed spells the textual clause.
Spells(clause, part) ==
  /\ clause.presence = part.presence
  /\ clause.term.kind = part.kind
  /\ part.field # <<>> => clause.fields = << part.field >>
  /\ part.field = <<>> => clause.fields = AllFields

\* C12: for a query string written as textual clauses separated by
\* whitespace, parse() ends with exactly one Query clause per textual clause,
\* in textual order, a range or comparator clause followed by further clauses
\* included.
C12_OneClausePerTextualClause ==
  (qpParts # <<>> /\ qpState \in { "done", "failed" }) =>
    /\ qpState = "done"
    /\ Len(qpParser.clauses) = Len(qpParts)
    /\ \A i \in 1..Len(qpParts) : Spells(qpParser.clauses[i], qpParts[i])

\* C13: every lexeme the lexer emitted, and the QueryParseError thrown if
\* any, has offsets 0 <= start <= end <= length of the query string.
C13_OffsetsWithinString ==
  /\ qpState \notin { "idle", "search" } =>
       \A i \in 1..Len(qpParser.lexemes) :
         /\ 0 <= qpParser.lexemes[i].start
         /\ qpParser.lexemes[i].start <= qpParser.lexemes[i].end
         /\ qpParser.lexemes[i].end <= Len(qpStr)
  /\ qpState = "failed" =>
       /\ 0 <= qpError.start
       /\ qpError.start <= qpError.end
       /\ qpError.end <= Len(qpStr)

\* C14: the step of parsePresence at a PRESENCE lexeme records PROHIBITED for
\* "-" and REQUIRED for "+" on the current clause; it goes on to parseField
\* or parseTerm when the next lexeme is a FIELD or a TERM, and otherwise,
\* also when there is no next lexeme, fails with a QueryParseError.
C14_PresenceRecorded ==
  [][ qpState = "parsePresence" =>
        LET lexeme == PeekLexeme(qpParser)
            last   == qpParser.lexemeIdx + 1 = Len(qpParser.lexemes)
            next   == qpParser.lexemes[qpParser.lexemeIdx + 2]
        IN /\ lexeme.type = "PRESENCE"
           /\ "presence" \in qpParser'.currentClause.keys
           /\ lexeme.str = << "-" >> => qpParser'.currentClause.presence = "PROHIBITED"
           /\ lexeme.str = << "+" >> => qpParser'.currentClause.presence = "REQUIRED"
           /\ IF ~last /\ next.type \in { "FIELD", "TERM" }
              THEN /\ qpState' = (IF next.type = "FIELD" THEN "parseField" ELSE "parseTerm")
                   /\ qpError' = <<>>
              ELSE /\ qpState' = "failed"
                   /\ qpError'.name = "QueryParseError" ]_vars

\* "-~1": PROHIBITED is recorded and the EDIT_DISTANCE that follows the
\* PRESENCE makes the parse fail.
C14_Witness ==
  /\ qpState = "failed"
  /\ qpStr = << "-", "~", "1" >>
  /\ qpParser.currentClause.presence = "PROHIBITED"
  /\ qpError.message = "expecting term or field"

-----------------------------------------------------------------------------
(* lunr.Set: calls of intersect and union, sentinels included *)

\* The sets over three document refs, Set.empty and Set.complete among them.
SetElements == { "a", "b", "c" }

SetValues ==
  { [ kind |-> "finite", elements |-> e ] : e \in SUBSET SetElements } \cup { SetComplete }

stOthers == << tsVars, nmVars, idxVars, mdVars, qpVars, vcVars, plVars >>

STInit ==
  /\ TSIdle
  /\ NMIdle
  /\ IdxIdle
  /\ MDIdle
  /\ QPIdle
  /\ VCIdle
  /\ PLIdle
  /\ stSource \in { "lib/set.ts", "lunr.js" }
  /\ stThis = <<>>
  /\ stOther = <<>>
  /\ stOp = "none"
  /\ stResult = <<>>

\* set.intersect(other)
SetIntersectCall ==
  /\ stOp = "none"
  /\ \E set \in SetValues, other \in SetValues :
       /\ stThis' = set
       /\ stOther' = other
       /\ stResult' = SetIntersect(set, other)
  /\ stOp' = "intersect"
  /\ UNCHANGED stSource
  /\ UNCHANGED stOthers

\* set.union(other)
SetUnionCall ==
  /\ stOp = "none"
  /\ \E set \in SetValues, other \in SetValues :
       /\ stThis' = set
       /\ stOther' = other
       /\ stResult' = SetUnion(stSource, set, other)
  /\ stOp' = "union"
  /\ UNCHANGED stSource
  /\ UNCHANGED stOthers

STNext == SetIntersectCall \/ SetUnionCall

SpecSet == STInit /\ [][STNext]_vars

\* C17: for every set S, the sentinels included, S.intersect(complete) = S,
\* S.union(empty) = S, empty.intersect(S) = empty and complete.union(S) =
\* complete.
C17_SetAlgebra ==
  /\ (stOp = "intersect" /\ stOther = SetComplete) => stResult = stThis
  /\ (stOp = "union" /\ stOther = SetEmpty) => stResult = stThis
  /\ (stOp = "intersect" /\ stThis = SetEmpty) => stResult = SetEmpty
  /\ (stOp = "union" /\ stThis = SetComplete) => stResult = SetComplete

-----------------------------------------------------------------------------
(* lunr.Vector: insert and dot on two vectors *)

MaxIndex == 1

\* The values inserted.
VectorValues == { -1, 2 }

vcOthers == << tsVars, nmVars, idxVars, mdVars, qpVars, stVars, plVars >>

\* a = new lunr.Vector, b = new lunr.Vector
VCInit ==
  /\ TSIdle
  /\ NMIdle
  /\ IdxIdle
  /\ MDIdle
  /\ QPIdle
  /\ STIdle
  /\ PLIdle
  /\ vcA = <<>>
  /\ vcB = <<>>
  /\ vcCall = [ method |-> "new", on |-> "", idx |-> 0, val |-> 0 ]
  /\ vcThrown = ""
  /\ vcDot = [ ab |-> 0, ba |-> 0 ]
  /\ vcMagnitude = 0
  /\ vcReturned = <<>>

\* a.insert(idx, val)
InsertA ==
  /\ \E idx \in 0..MaxIndex, val \in VectorValues :
       LET call == VectorInsertCall(vcA, idx, val)
       IN  /\ vcA' = call.elements
           /\ vcThrown' = call.thrown
           /\ vcCall' = [ method |-> "insert", on |-> "a", idx |-> idx, val |-> val ]
  /\ vcMagnitude' = 0
  /\ UNCHANGED << vcB, vcDot, vcReturned >>
  /\ UNCHANGED vcOthers

\* b.insert(idx, val)
InsertB ==
  /\ \E idx \in 0..MaxIndex, val \in VectorValues :
       LET call == VectorInsertCall(vcB, idx, val)
       IN  /\ vcB' = call.elements
           /\ vcThrown' = call.thrown
           /\ vcCall' = [ method |-> "insert", on |-> "b", idx |-> idx, val |-> val ]
  /\ UNCHANGED << vcA, vcDot, vcMagnitude, vcReturned >>
  /\ UNCHANGED vcOthers

\* a.dot(b) and b.dot(a)
DotCall ==
  /\ vcDot' = [ ab |-> Dot(vcA, vcB, 1, 1), ba |-> Dot(vcB, vcA, 1, 1) ]
  /\ vcCall' = [ method |-> "dot", on |-> "", idx |-> 0, val |-> 0 ]
  /\ vcThrown' = ""
  /\ UNCHANGED << vcA, vcB, vcMagnitude, vcReturned >>
  /\ UNCHANGED vcOthers

VCNext == InsertA \/ InsertB \/ DotCall

SpecVector == VCInit /\ [][VCNext]_vars

HasIndex(elements, idx) == \E i \in 1..Len(elements) : elements[i].index = idx

\* C18: an insert(idx, val) on a vector that already stores idx throws and
\* leaves the (index, value) pairs of the vector as they were.
C18_DuplicateInsertFails ==
  [][ vcCall'.method = "insert" =>
        LET before == IF vcCall'.on = "a" THEN vcA ELSE vcB
            after  == IF vcCall'.on = "a" THEN vcA' ELSE vcB'
        IN  HasIndex(before, vcCall'.idx) =>
              /\ vcThrown' = "duplicate index"
              /\ after = before ]_vars

\* An insert of index 1 with another value was rejected by a vector of two pairs.
C18_Witness ==
  /\ vcThrown = "duplicate index"
  /\ vcCall = [ method |-> "insert", on |-> "a", idx |-> 1, val |-> 2 ]
  /\ vcA = << [ index |-> 0, value |-> 2 ], [ index |-> 1, value |-> -1 ] >>

\* C20: a.dot(b) = b.dot(a).
C20_DotCommutes ==
  vcCall.method = "dot" => vcDot.ab = vcDot.ba

\* Two different vectors that share an index and have a product other than 0.
C20_Witness ==
  /\ vcCall.method = "dot"
  /\ vcDot.ab = -2
  /\ Len(vcA) = 1
  /\ Len(vcB) = 2
  /\ vcA[1].index = 1

-----------------------------------------------------------------------------
(* Pipeline.run *)

MaxStages == 2
MaxTokens == 2

plOthers == << tsVars, nmVars, idxVars, mdVars, qpVars, stVars, vcVars >>

\* pipeline.run(tokens) is called.
PLInit ==
  /\ TSIdle
  /\ NMIdle
  /\ IdxIdle
  /\ MDIdle
  /\ QPIdle
  /\ STIdle
  /\ VCIdle
  /\ plStack \in UNION { [ 1..n -> PipelineFunctions ] : n \in 0..MaxStages }
  /\ plInput \in UNION { [ 1..n -> PipelineTokens ] : n \in 0..MaxTokens }
  /\ plTokens = plInput
  /\ plStage = 0
  /\ plPhase = "running"

\* One iteration of for (const fn of this._stack): tokens = memo
RunStage ==
  /\ plPhase = "running"
  /\ plStage < Len(plStack)
  /\ plTokens' = StageMemo(plStack[plStage + 1], plTokens, 1, <<>>)
  /\ plStage' = plStage + 1
  /\ UNCHANGED << plStack, plInput, plPhase >>
  /\ UNCHANGED plOthers

\* return tokens
RunReturn ==
  /\ plPhase = "running"
  /\ plStage = Len(plStack)
  /\ plPhase' = "returned"
  /\ UNCHANGED << plStack, plInput, plTokens, plStage >>
  /\ UNCHANGED plOthers

PLNext == RunStage \/ RunReturn

SpecPipeline == PLInit /\ [][PLNext]_vars

\* What a stage keeps of one result.
Kept(result) ==
  IF result.kind \in { "null", "undefined", "''" } THEN <<>> ELSE result.tokens

\* A stage applied to a complete list: the kept results, in token order.
RECURSIVE ApplyStage(_, _, _)
ApplyStage(fn, list, j) ==
  IF j > Len(list) THEN <<>>
  ELSE Kept(Call(fn, list[j], j, list)) \o ApplyStage(fn, list, j + 1)

\* The first n stages applied one after another.
RECURSIVE ApplyStages(_, _, _)
ApplyStages(stack, list, n) ==
  IF n = 0 THEN list
  ELSE ApplyStage(stack[n], ApplyStages(stack, list, n - 1), 1)

-----------------------------------------------------------------------------
(* lunr.Vector: insert, upsert and magnitude on one vector *)

MaxTermIndex == 2

\* The values a pair may hold; an upsert that would leave them is not made.
StoredValues == { -1, 1, 2 }

\* The functions handed to upsert: function (a, b) { return a }, the
\* function (a, b) { return a + b } of Index.query, and the one of insert.
UpsertFunctions == { "first", "sum", "throw" }

\* fn(this.elements[position + 1], val)
UpsertFn(fn, a, b) == IF fn = "first" THEN a ELSE a + b

\* Vector.upsert(insertIdx, val, fn) that splices the pair in without looking
\* for insertIdx
UpsertCallSplicing(elements, magnitude, insertIdx, val, fn) ==
  LET position == PositionForIndex(elements, insertIdx)
  IN  [ elements  |-> SubSeq(elements, 1, position)
                        \o << [ index |-> insertIdx, value |-> val ] >>
                        \o SubSeq(elements, position + 1, Len(elements)),
        magnitude |-> 0,
        thrown    |-> "" ]

\* Vector.upsert(insertIdx, val, fn) that leaves _magnitude as it is
UpsertCallKeepingMagnitude(elements, magnitude, insertIdx, val, fn) ==
  LET position == PositionForIndex(elements, insertIdx)
  IN  IF position < Len(elements) /\ elements[position + 1].index = insertIdx
      THEN IF fn = "throw"
           THEN [ elements |-> elements, magnitude |-> magnitude, thrown |-> "duplicate index" ]
           ELSE [ elements  |-> [ elements EXCEPT
                                    ![position + 1].value = UpsertFn(fn, @, val) ],
                  magnitude |-> magnitude,
                  thrown    |-> "" ]
      ELSE [ elements  |-> SubSeq(elements, 1, position)
                             \o << [ index |-> insertIdx, value |-> val ] >>
                             \o SubSeq(elements, position + 1, Len(elements)),
             magnitude |-> magnitude,
             thrown    |-> "" ]

\* Vector.upsert(insertIdx, val, fn), the whole call: _magnitude is reset
\* first; fn is called before the assignment to elements[position + 1].
UpsertCall(elements, magnitude, insertIdx, val, fn) ==
  LET position == PositionForIndex(elements, insertIdx)
  IN  IF position < Len(elements) /\ elements[position + 1].index = insertIdx
      THEN IF fn = "throw"
           THEN [ elements |-> elements, magnitude |-> 0, thrown |-> "duplicate index" ]
           ELSE [ elements  |-> [ elements EXCEPT
                                    ![position + 1].value = UpsertFn(fn, @, val) ],
                  magnitude |-> 0,
                  thrown    |-> "" ]
      ELSE [ elements  |-> SubSeq(elements, 1, position)
                             \o << [ index |-> insertIdx, value |-> val ] >>
                             \o SubSeq(elements, position + 1, Len(elements)),
             magnitude |-> 0,
             thrown    |-> "" ]

\* Vector.magnitude(), in thousandths: the memoized value where it is truthy.
MagnitudeCall(elements, magnitude) ==
  IF magnitude # 0 THEN magnitude
  ELSE Sqrt(SumOfSquares(elements, 1) * 1000000)

\* a = new lunr.Vector
VOInit ==
  /\ TSIdle
  /\ NMIdle
  /\ IdxIdle
  /\ MDIdle
  /\ QPIdle
  /\ STIdle
  /\ PLIdle
  /\ vcA = <<>>
  /\ vcB = <<>>
  /\ vcCall = [ method |-> "new", idx |-> 0, val |-> 0, fn |-> "" ]
  /\ vcThrown = ""
  /\ vcDot = <<>>
  /\ vcMagnitude = 0
  /\ vcReturned = [ value |-> 0, afterReset |-> FALSE ]

\* A memoized magnitude was reset by this call or by one before it, with no
\* call of magnitude() since.
MemoReset ==
  \/ vcMagnitude # 0
  \/ vcCall.method # "magnitude" /\ vcReturned.afterReset

\* a.upsert(idx, val, fn)
UpsertVector ==
  /\ \E idx \in 0..MaxTermIndex, val \in VectorValues, fn \in { "first", "sum" } :
       LET call == UpsertCall(vcA, vcMagnitude, idx, val, fn)
       IN  /\ \A i \in 1..Len(call.elements) : call.elements[i].value \in StoredValues
           /\ vcA' = call.elements
           /\ vcMagnitude' = call.magnitude
           /\ vcThrown' = call.thrown
           /\ vcCall' = [ method |-> "upsert", idx |-> idx, val |-> val, fn |-> fn ]
  /\ vcReturned' = [ value |-> 0, afterReset |-> MemoReset ]
  /\ UNCHANGED << vcB, vcDot >>
  /\ UNCHANGED vcOthers

\* a.insert(idx, val)
InsertVector ==
  /\ \E idx \in 0..MaxTermIndex, val \in VectorValues :
       LET call == UpsertCall(vcA, vcMagnitude, idx, val, "throw")
       IN  /\ vcA' = call.elements
           /\ vcMagnitude' = call.magnitude
           /\ vcThrown' = call.thrown
           /\ vcCall' = [ method |-> "insert", idx |-> idx, val |-> val, fn |-> "throw" ]
  /\ vcReturned' = [ value |-> 0, afterReset |-> MemoReset ]
  /\ UNCHANGED << vcB, vcDot >>
  /\ UNCHANGED vcOthers

\* a.magnitude()
MagnitudeVector ==
  /\ vcMagnitude' = MagnitudeCall(vcA, vcMagnitude)
  /\ vcReturned' = [ value      |-> vcMagnitude',
                     afterReset |-> vcCall.method # "magnitude" /\ vcReturned.afterReset ]
  /\ vcThrown' = ""
  /\ vcCall' = [ method |-> "magnitude", idx |-> 0, val |-> 0, fn |-> "" ]
  /\ UNCHANGED << vcA, vcB, vcDot >>
  /\ UNCHANGED vcOthers

VONext == UpsertVector \/ InsertVector \/ MagnitudeVector

SpecVectorOps == VOInit /\ [][VONext]_vars

\* C21: upsert(i, v, (a, b) => a) on a vector that stores v at index i
\* leaves the (index, value) pairs unchanged.
C21_UpsertFirstIdempotent ==
  [][ ( /\ vcCall'.method = "upsert"
        /\ vcCall'.fn = "first"
        /\ \E k \in 1..Len(vcA) :
             vcA[k].index = vcCall'.idx /\ vcA[k].value = vcCall'.val )
      => vcA' = vcA /\ vcThrown' = "" ]_vars

\* upsert(1, 2, first) was the last call on a vector holding 2 at index 1,
\* between two other pairs.
C21_Witness ==
  /\ vcCall = [ method |-> "upsert", idx |-> 1, val |-> 2, fn |-> "first" ]
  /\ Len(vcA) = 3
  /\ vcA[2] = [ index |-> 1, value |-> 2 ]
  /\ vcThrown = ""

\* C27: the pairs are stored with strictly increasing indexes.
C27_StrictlyIncreasing ==
  \A i \in 1..Len(vcA), j \in 1..Len(vcA) : i < j => vcA[i].index < vcA[j].index

\* All indexes are stored, the middle one put in last by an upsert, and one
\* value is a sum that no single call stored.
C27_Witness ==
  /\ Len(vcA) = MaxTermIndex + 1
  /\ vcCall.method = "upsert"
  /\ vcCall.idx = 1
  /\ vcCall.val = vcA[2].value
  /\ vcA[1].value = 1

\* C28: magnitude() returns the root of the sum of the squares of the values
\* stored at the time of the call, and a memoized _magnitude is that root.
C28_MagnitudeCurrent ==
  /\ vcCall.method = "magnitude" =>
       vcReturned.value = Sqrt(SumOfSquares(vcA, 1) * 1000000)
  /\ vcMagnitude # 0 => vcMagnitude = Sqrt(SumOfSquares(vcA, 1) * 1000000)

\* magnitude() was memoized, calls that changed the vector reset it, and
\* magnitude() has returned the root of 1 + 4 + 4.
C28_Witness ==
  /\ vcCall.method = "magnitude"
  /\ vcReturned.afterReset
  /\ vcReturned.value = 3000
  /\ Len(vcA) = 3

-----------------------------------------------------------------------------
(* A Builder whose search pipeline is given a stop word filter before      *)
(* build(), and one query on the index.                                    *)

\* builder.searchPipeline.add(stopWordFilter)
SearchPipelineAdd ==
  /\ ixPhase = "adding"
  /\ ixBuilder.searchPipeline = <<>>
  /\ ixBuilder' = [ ixBuilder EXCEPT !.searchPipeline = Append(@, "stopWordFilter") ]
  /\ UNCHANGED <<ixSource, ixDocs, ixNodes, ixIndex, ixLoaded, ixPhase, ixClauses, ixOutcome,
                 ixReloaded, idxOthers>>

SearchNext == SearchPipelineAdd \/ AddCall \/ BuildCall \/ QueryCall

SpecSearch == Init /\ [][SearchNext]_vars

\* The search pipeline leaves nothing of the term of the clause.
Discarded(clause) ==
  clause.usePipeline /\ RunString(ixIndex.pipeline, clause.term) = <<>>

\* C23: a query with a REQUIRED clause whose term the search pipeline
\* discards completes without raising an error.
C23_DiscardedRequiredTermCompletes ==
  ( /\ ixPhase = "queried"
    /\ \E i \in 1..Len(ixClauses) :
         ixClauses[i].presence = "REQUIRED" /\ Discarded(ixClauses[i]) )
    => ixOutcome.error = "none"

-----------------------------------------------------------------------------
(* A Builder on which field and add are called in any order *)

FieldsInit ==
  /\ TSIdle
  /\ NMIdle
  /\ AuxIdle
  /\ ixSource = "lib/builder.ts"
  /\ ixDocs \in Corpora
  /\ ixBuilder = NewLunrBuilder
  /\ ixNodes = <<>>
  /\ ixIndex = <<>>
  /\ ixLoaded = <<>>
  /\ ixPhase = "adding"
  /\ ixClauses = <<>>
  /\ ixOutcome = <<>>
  /\ ixReloaded = <<>>

\* builder.field(fieldName) for a field not registered yet
FieldCall ==
  /\ ixPhase = "adding"
  /\ \E fieldName \in FieldNames :
       /\ fieldName \notin Range(ixBuilder.fields)
       /\ ixBuilder' = Field(ixBuilder, fieldName)
  /\ UNCHANGED <<ixSource, ixDocs, ixNodes, ixIndex, ixLoaded, ixPhase, ixClauses, ixOutcome,
                 ixReloaded, idxOthers>>

FieldsNext == FieldCall \/ AddCall

SpecFields == FieldsInit /\ [][FieldsNext]_vars

\* C24: every posting of the inverted index has an entry for every
\* registered field name.
C24_PostingsHaveEveryField ==
  ixPhase = "adding"
    => \A i \in 1..Len(ixBuilder.invertedIndex) :
         \A k \in 1..Len(ixBuilder.fields) :
           ixBuilder.fields[k] \in DOMAIN ixBuilder.invertedIndex[i].posting

-----------------------------------------------------------------------------
(* MatchData called directly: the constructor, add and combine with        *)
(* metadata objects of the caller.                                         *)

MaxCalls == 3

\* The metadata objects of the caller, the first addresses of the heap.
CallerMetadata ==
  << << [ key |-> "position", value |-> << 0 >> ] >>,
     << [ key |-> "position", value |-> << 1 >> ] >> >>

MatchTerms == { "cat" }

MCInit ==
  /\ TSIdle
  /\ NMIdle
  /\ IdxIdle
  /\ QPIdle
  /\ STIdle
  /\ VCIdle
  /\ PLIdle
  /\ mdHeap = CallerMetadata
  /\ mdPhase = "calls"
  /\ mdQuery = <<>>
  /\ mdResult = <<>>
  /\ mdLast = <<>>
  /\ mdAgain = <<>>
  /\ mdInstances = <<>>
  /\ mdCalls = <<>>

\* new lunr.MatchData(term, field, metadata)
ConstructCall ==
  /\ mdPhase = "calls"
  /\ Len(mdCalls) < MaxCalls
  /\ \E term \in MatchTerms, field \in FieldNames, metadata \in 1..Len(CallerMetadata) :
       LET n == NewMatchData(mdHeap, term, field, metadata)
       IN  /\ mdHeap' = n.heap
           /\ mdInstances' = Append(mdInstances, n.md)
           /\ mdCalls' = Append(mdCalls, [ method |-> "new", metadata |-> metadata ])
  /\ UNCHANGED << mdPhase, mdQuery, mdResult, mdLast, mdAgain, mdOthers >>

\* matchData.add(term, field, metadata)
MatchDataAddCall ==
  /\ mdPhase = "calls"
  /\ Len(mdCalls) < MaxCalls
  /\ \E this \in 1..Len(mdInstances), term \in MatchTerms, field \in FieldNames,
        metadata \in 1..Len(CallerMetadata) :
       LET r == MatchDataAdd(mdHeap, mdInstances[this], term, field, metadata)
       IN  /\ mdHeap' = r.heap
           /\ mdInstances' = [ mdInstances EXCEPT ![this] = r.md ]
           /\ mdCalls' = Append(mdCalls, [ method |-> "add", metadata |-> metadata ])
  /\ UNCHANGED << mdPhase, mdQuery, mdResult, mdLast, mdAgain, mdOthers >>

\* matchData.combine(otherMatchData)
CombineCall ==
  /\ mdPhase = "calls"
  /\ Len(mdCalls) < MaxCalls
  /\ \E this \in 1..Len(mdInstances), other \in 1..Len(mdInstances) :
       /\ this # other
       /\ LET c == Combine(mdHeap, mdInstances[this], mdInstances[other], 1)
          IN  /\ mdHeap' = c.heap
              /\ mdInstances' = [ mdInstances EXCEPT ![this] = c.md ]
              /\ mdCalls' = Append(mdCalls, [ method |-> "combine", metadata |-> 0 ])
  /\ UNCHANGED << mdPhase, mdQuery, mdResult, mdLast, mdAgain, mdOthers >>

MCNext == ConstructCall \/ MatchDataAddCall \/ CombineCall

SpecMatchDataCalls == MCInit /\ [][MCNext]_vars

\* C29: no call of the constructor, add or combine modifies a metadata
\* object the caller supplied in that call or in an earlier one.
C29_CallerMetadataUnchanged ==
  mdPhase = "calls"
    => \A a \in 1..Len(CallerMetadata) : mdHeap[a] = CallerMetadata[a]

-----------------------------------------------------------------------------
(* QueryParser.parse, one call of a lexer or parser state function per      *)
(* step.  JavaScript runs the two loops to their end without interruption,  *)
(* so a state function that can be called is called.                       *)

ParseInit ==
  /\ TSIdle
  /\ NMIdle
  /\ IdxIdle
  /\ MDIdle
  /\ STIdle
  /\ VCIdle
  /\ PLIdle
  /\ qpParts = <<>>
  /\ qpStr = <<>>
  /\ qpParser = <<>>
  /\ qpState = "parse"
  /\ qpError = <<>>
  /\ qpLexer = <<>>

\* new lunr.QueryParser(str, query) for a query string, and parse() up to
\* the loop of lexer.run(), which starts with lexText.
ParseCall ==
  /\ qpState = "parse"
  /\ \/ /\ qpParts' \in UNION { [ 1..n -> TextClauses ] : n \in 1..MaxClauses }
        /\ qpStr' = JoinClauses(qpParts')
     \/ /\ qpParts' = <<>>
        /\ qpStr' \in StringsUpTo(QueryAlphabet, MaxQueryLen)
  /\ qpLexer' = [ lexer |-> NewLexer(qpStr'), state |-> "lexText" ]
  /\ qpState' = "lexing"
  /\ UNCHANGED << qpParser, qpError >>
  /\ UNCHANGED qpOthers

\* One turn of the loop of QueryLexer.run(): state = state(this)
RunLexerState ==
  /\ qpState = "lexing"
  /\ qpLexer.state # "done"
  /\ qpLexer' = LexerState(qpLexer)
  /\ UNCHANGED << qpParts, qpStr, qpParser, qpState, qpError >>
  /\ UNCHANGED qpOthers

\* The loop of QueryLexer.run() ends: parse() takes the lexemes and goes on
\* to its own loop, which starts with parseClause.
LexerReturn ==
  /\ qpState = "lexing"
  /\ qpLexer.state = "done"
  /\ qpParser' = [ lexemes |-> qpLexer.lexer.lexemes, lexemeIdx |-> 0,
                   currentClause |-> EmptyClause, currentRange |-> <<>>,
                   currentComparator |-> <<>>, clauses |-> <<>> ]
  /\ qpState' = "parseClause"
  /\ UNCHANGED << qpParts, qpStr, qpError, qpLexer >>
  /\ UNCHANGED qpOthers

ParseNext ==
  \/ ParseCall
  \/ RunLexerState
  \/ LexerReturn
  \/ ParseClause
  \/ ParsePresence
  \/ ParseField
  \/ ParseRangeStart
  \/ ParseRangeEnd
  \/ ParseComparator
  \/ ParseComparand
  \/ ParseTerm
  \/ ParseEditDistance
  \/ ParseBoost

SpecParse == ParseInit /\ [][ParseNext]_vars /\ WF_vars(ParseNext)

\* C30: for every query string, parse() comes to an end: the lexer's loop
\* and then the parser's loop stop, with the Query returned ("done") or a
\* QueryParseError thrown ("failed").
C30_ParseTerminates ==
  <>(/\ qpState \in { "done", "failed" }
     /\ qpState = "failed" => qpError.name = "QueryParseError")

\* "a\": the backslash at the end takes the lexer's position past the end of
\* the string; lexText, lexEOS and the parser still come to an end, with one
\* clause.
C30_Witness ==
  /\ qpState = "done"
  /\ qpStr = << "a", "\\" >>
  /\ qpLexer.state = "done"
  /\ qpLexer.lexer.pos > Len(qpStr)
  /\ Len(qpParser.clauses) = 1

=============================================================================
